---- MODULE Spec2Model ----
(***************************************************************************)
(* MediaGuard3: the fingerprint verification engine                        *)
(* (modules/verification.py), the trust aggregator                         *)
(* (modules/trust_aggregator.py), the mock ledger                          *)
(* (modules/blockchain_layer.py) and the session registry of protected     *)
(* fingerprints that the application keeps (streamlit_app.py).             *)
(*                                                                         *)
(* Encoding of Python values                                               *)
(*   - a hash value is a record [t, v]: t = "str" with v the sequence of   *)
(*     its characters, t = "none" for None, t = "absent" for a key that is *)
(*     not in the dict, t = "int" for a truthy value that is not a string; *)
(*   - a float similarity is the exact rational [n, d] in lowest terms     *)
(*     (the quotients the code forms have denominators below 200, where    *)
(*     the IEEE-754 double results order and compare with 85.0 exactly as  *)
(*     the rationals do);                                                  *)
(*   - Optional[Dict] is a sequence of length 0 (None) or 1.               *)
(***************************************************************************)
EXTENDS Integers, Sequences, FiniteSets, TLC

VARIABLES
    protected_fingerprints, \* st.session_state.protected_fingerprints
    engine,                 \* the VerificationEngine instance (its attributes)
    fingerprint_data,       \* the candidate of the latest verify call
    verification_result,    \* what the latest verify call returned
    last_action,            \* which operation ran last
    repeated,               \* the latest call repeated the call before it
    aggregator,             \* the TrustAggregator instance (its attributes)
    image_analysis,         \* the arguments of the aggregate call
    fake_news_analysis,
    sensitive_content,
    trust_aggregation,      \* what the aggregate call returned
    pc,                     \* where a verify call in progress stands
    scan_index,             \* entries its list iterator has handed out
    scan_best,              \* its locals best_match, best_similarity, ...
    registry_at_call,       \* the registry as it was when the call began
    calls,                  \* the verify calls of concurrent requests
    arg_hash1, arg_hash2,   \* the arguments of the similarity helpers
    perceptual_similarity,  \* what _check_perceptual_similarity returned
    face_similarity,        \* what _check_face_similarity returned
    pair_pass,              \* what one loop pass on the pair left
    use_testnet,            \* the BlockchainTraceability instance: its flag,
    mock_chain,             \* its list of blocks
    last_block_hash,        \* and the hash of the block appended last
    ledger_result,          \* the latest call on the ledger and its result
    issued,                 \* the transaction ids register_fingerprint returned
    registrations           \* the register_fingerprint calls made

verify_vars == <<protected_fingerprints, engine, fingerprint_data,
                 verification_result, last_action, repeated>>

aggregate_vars == <<aggregator, image_analysis, fake_news_analysis,
                    sensitive_content, trust_aggregation>>

scan_vars == <<pc, scan_index, scan_best, registry_at_call, calls>>

similarity_vars == <<arg_hash1, arg_hash2, perceptual_similarity,
                     face_similarity, pair_pass>>

ledger_vars == <<use_testnet, mock_chain, last_block_hash, ledger_result,
                 issued, registrations>>

vars == <<verify_vars, aggregate_vars, scan_vars, similarity_vars,
          ledger_vars>>

(***************************************************************************)
(* Bounds of the model                                                     *)
(***************************************************************************)
MaxRegistry == 2

\* the longest of the short hashes the similarity helpers are applied to
MaxHashLen == 3

\* the most blocks a ledger instance is given
MaxBlocks == 2

(***************************************************************************)
(* Python values                                                           *)
(***************************************************************************)
None == [t |-> "none", v |-> <<>>]

Absent == [t |-> "absent", v |-> <<>>]

NonStr == [t |-> "int", v |-> <<>>]

Str(s) == [t |-> "str", v |-> s]

\* dict.get(key): a missing key reads as None
Get(x) == IF x.t = "absent" THEN None ELSE x

\* `not x` for None, "" and every other value used here
Falsy(x) == x.t = "none" \/ (x.t = "str" /\ x.v = <<>>)

\* str.lower() on one character of the alphabet the model uses
LowerChar(c) ==
    CASE c = "A" -> "a"
      [] c = "B" -> "b"
      [] c = "C" -> "c"
      [] c = "D" -> "d"
      [] OTHER -> c

Lower(s) == [i \in 1..Len(s) |-> LowerChar(s[i])]

Min(a, b) == IF a <= b THEN a ELSE b

Max(a, b) == IF a >= b THEN a ELSE b

(***************************************************************************)
(* Exact rationals standing for the floats of the code                     *)
(***************************************************************************)
RECURSIVE GCD(_, _)
GCD(a, b) == IF b = 0 THEN a ELSE GCD(b, a % b)

Rat(n, d) == LET g == GCD(n, d) IN [n |-> n \div g, d |-> d \div g]

RatGT(a, b) == a.n * b.d > b.n * a.d

RatGE(a, b) == a.n * b.d >= b.n * a.d

RatMax(a, b) == IF RatGE(a, b) THEN a ELSE b

RatAdd(a, b) == Rat(a.n * b.d + b.n * a.d, a.d * b.d)

\* a - b, for a >= b
RatSub(a, b) == Rat(a.n * b.d - b.n * a.d, a.d * b.d)

RatMul(a, b) == Rat(a.n * b.n, a.d * b.d)

RatDiv(a, b) == Rat(a.n * b.d, a.d * b.n)

\* f"{x:.1f}": the nearest multiple of 0.1, ties to even, in tenths
Fmt1(x) ==
    LET q == (x.n * 10) \div x.d
        r == (x.n * 10) % x.d
    IN  IF 2 * r > x.d \/ (2 * r = x.d /\ q % 2 = 1) THEN q + 1 ELSE q

(***************************************************************************)
(* VerificationEngine                                                      *)
(***************************************************************************)
\* the length at which two hashes are compared by Hamming distance
HexHashLen == 16

\* __init__: the thresholds, in hundredths (0.85 is 85)
VerificationEngine_init ==
    [exact_match_threshold |-> 100,
     perceptual_similarity_threshold |-> 85,
     face_match_threshold |-> 90]

\* a helper's outcome: a value, or an exception leaving the helper
Ok(x) == [raised |-> FALSE, val |-> x]

Raise == [raised |-> TRUE, val |-> FALSE]

\* sum(c1 != c2 for c1, c2 in zip(hash1, hash2))
Mismatches(s1, s2) ==
    Cardinality({i \in 1..Min(Len(s1), Len(s2)) : s1[i] # s2[i]})

\* sum(c1 == c2 for c1, c2 in zip(hash1, hash2))
CommonChars(s1, s2) ==
    Cardinality({i \in 1..Min(Len(s1), Len(s2)) : s1[i] = s2[i]})

\* mutant: the digests are compared with their letter case
check_exact_match_cased(hash1, hash2) ==
    IF Falsy(hash1) \/ Falsy(hash2) THEN Ok(FALSE)
    ELSE IF hash1.t # "str" \/ hash2.t # "str" THEN Raise
    ELSE Ok(hash1.v = hash2.v)

\* _check_exact_match: .lower() of a non-string raises AttributeError
check_exact_match(hash1, hash2) ==
    IF Falsy(hash1) \/ Falsy(hash2) THEN Ok(FALSE)
    ELSE IF hash1.t # "str" \/ hash2.t # "str" THEN Raise
    ELSE Ok(Lower(hash1.v) = Lower(hash2.v))

\* mutant: the matching positions are divided by the length of the first
\* hash
char_similarity_first(hash1, hash2) ==
    IF hash1 = hash2 THEN Ok(Rat(100, 1))
    ELSE IF hash1.t # "str" \/ hash2.t # "str" THEN Raise
    ELSE Ok(Rat(CommonChars(hash1.v, hash2.v) * 100, Len(hash1.v)))

\* the character-wise fallback shared by both similarity helpers:
\* zip() over a non-string raises TypeError
char_similarity(hash1, hash2) ==
    IF hash1 = hash2 THEN Ok(Rat(100, 1))
    ELSE IF hash1.t # "str" \/ hash2.t # "str" THEN Raise
    ELSE Ok(Rat(CommonChars(hash1.v, hash2.v) * 100,
                Max(Len(hash1.v), Len(hash2.v))))

\* mutant: the Hamming branch returns the share of mismatched positions
check_perceptual_similarity_distance(hash1, hash2) ==
    IF Falsy(hash1) \/ Falsy(hash2) THEN Ok(Rat(0, 1))
    ELSE IF /\ hash1.t = "str" /\ hash2.t = "str"
            /\ Len(hash1.v) = HexHashLen /\ Len(hash2.v) = HexHashLen
         THEN LET hamming == Mismatches(hash1.v, hash2.v)
              IN  Ok(RatMax(Rat(0, 1), Rat(hamming * 100, Len(hash1.v))))
    ELSE char_similarity(hash1, hash2)

\* _check_perceptual_similarity: a TypeError of len() is swallowed by the
\* try block, so a non-string falls through to the fallback
check_perceptual_similarity(hash1, hash2) ==
    IF Falsy(hash1) \/ Falsy(hash2) THEN Ok(Rat(0, 1))
    ELSE IF /\ hash1.t = "str" /\ hash2.t = "str"
            /\ Len(hash1.v) = HexHashLen /\ Len(hash2.v) = HexHashLen
         THEN LET hamming == Mismatches(hash1.v, hash2.v)
              IN  Ok(RatMax(Rat(0, 1),
                            Rat((Len(hash1.v) - hamming) * 100, Len(hash1.v))))
    ELSE char_similarity(hash1, hash2)

\* mutant: face hashes are similar only if they are equal
check_face_similarity_equal(hash1, hash2) ==
    IF Falsy(hash1) \/ Falsy(hash2) THEN Ok(Rat(0, 1))
    ELSE IF hash1 = hash2 THEN Ok(Rat(100, 1))
    ELSE IF hash1.t # "str" \/ hash2.t # "str" THEN Raise
    ELSE Ok(Rat(0, 1))

\* _check_face_similarity
check_face_similarity(hash1, hash2) ==
    IF Falsy(hash1) \/ Falsy(hash2) THEN Ok(Rat(0, 1))
    ELSE char_similarity(hash1, hash2)

\* the result verify builds at lines 35-41
EmptyRegistryResult ==
    [raised |-> FALSE, match_found |-> FALSE, match_type |-> "None",
     similarity |-> Rat(0, 1), matched_fingerprint |-> <<>>,
     matched_index |-> 0,
     details |-> [message |-> "No protected fingerprints in database"]]

\* mutant: the exact match is reported without the entry it was found on
ExactResult_unmatched(protected, i) ==
    [raised |-> FALSE, match_found |-> TRUE, match_type |-> "exact",
     similarity |-> Rat(100, 1), matched_fingerprint |-> <<>>,
     matched_index |-> 0,
     details |-> [method |-> "SHA-256 cryptographic hash match",
                  confidence |-> [text |-> "100%"]]]

\* the result verify builds at lines 57-66; matched_index is the position
\* of the returned object in the list (its identity)
ExactResult(protected, i) ==
    [raised |-> FALSE, match_found |-> TRUE, match_type |-> "exact",
     similarity |-> Rat(100, 1), matched_fingerprint |-> <<protected>>,
     matched_index |-> i,
     details |-> [method |-> "SHA-256 cryptographic hash match",
                  confidence |-> [text |-> "100%"]]]

\* an exception propagating out of verify
RaisedResult ==
    [raised |-> TRUE, match_found |-> FALSE, match_type |-> "None",
     similarity |-> Rat(0, 1), matched_fingerprint |-> <<>>,
     matched_index |-> 0, details |-> [message |-> "exception"]]

\* the locals before the loop, lines 43-45
InitialBest ==
    [best_match |-> <<>>, best_index |-> 0,
     best_similarity |-> Rat(0, 1), best_match_type |-> "None"]

\* mutant: a comparison that ties with the best replaces it
UpdateBest_ties(best, sim, protected, i, type) ==
    IF RatGE(sim, best.best_similarity)
    THEN [best_match |-> <<protected>>, best_index |-> i,
          best_similarity |-> sim, best_match_type |-> type]
    ELSE best

\* mutant: a comparison that found any similarity replaces the best
UpdateBest_latest(best, sim, protected, i, type) ==
    IF RatGT(sim, Rat(0, 1))
    THEN [best_match |-> <<protected>>, best_index |-> i,
          best_similarity |-> sim, best_match_type |-> type]
    ELSE best

\* lines 74-77 and 86-89: a comparison replaces the best only if higher
UpdateBest(best, sim, protected, i, type) ==
    IF RatGT(sim, best.best_similarity)
    THEN [best_match |-> <<protected>>, best_index |-> i,
          best_similarity |-> sim, best_match_type |-> type]
    ELSE best

\* f'{best_match_type} similarity match'
MethodText(type) ==
    CASE type = "perceptual" -> "perceptual similarity match"
      [] type = "face" -> "face similarity match"
      [] OTHER -> "None similarity match"

\* mutant: the acceptance threshold is exclusive
FinalResult_strict(self, best) ==
    IF RatGT(best.best_similarity,
             Rat(self.perceptual_similarity_threshold, 1))
    THEN [raised |-> FALSE, match_found |-> TRUE,
          match_type |-> best.best_match_type,
          similarity |-> best.best_similarity,
          matched_fingerprint |-> best.best_match,
          matched_index |-> best.best_index,
          details |-> [method |-> MethodText(best.best_match_type),
                       confidence |-> [tenths |-> Fmt1(best.best_similarity)]]]
    ELSE [raised |-> FALSE, match_found |-> FALSE, match_type |-> "None",
          similarity |-> best.best_similarity,
          matched_fingerprint |-> <<>>, matched_index |-> 0,
          details |-> [message |-> "No significant match found",
                       highest_similarity |->
                           [tenths |-> Fmt1(best.best_similarity)]]]

\* mutant: a scan without a match reports similarity 0
FinalResult_zero(self, best) ==
    IF RatGE(best.best_similarity,
             Rat(self.perceptual_similarity_threshold, 1))
    THEN [raised |-> FALSE, match_found |-> TRUE,
          match_type |-> best.best_match_type,
          similarity |-> best.best_similarity,
          matched_fingerprint |-> best.best_match,
          matched_index |-> best.best_index,
          details |-> [method |-> MethodText(best.best_match_type),
                       confidence |-> [tenths |-> Fmt1(best.best_similarity)]]]
    ELSE [raised |-> FALSE, match_found |-> FALSE, match_type |-> "None",
          similarity |-> Rat(0, 1),
          matched_fingerprint |-> <<>>, matched_index |-> 0,
          details |-> [message |-> "No significant match found",
                       highest_similarity |->
                           [tenths |-> Fmt1(best.best_similarity)]]]

\* lines 91-113: the decision after the scan; the threshold attribute times
\* 100 is the percentage the best similarity is compared with
FinalResult(self, best) ==
    IF RatGE(best.best_similarity,
             Rat(self.perceptual_similarity_threshold, 1))
    THEN [raised |-> FALSE, match_found |-> TRUE,
          match_type |-> best.best_match_type,
          similarity |-> best.best_similarity,
          matched_fingerprint |-> best.best_match,
          matched_index |-> best.best_index,
          details |-> [method |-> MethodText(best.best_match_type),
                       confidence |-> [tenths |-> Fmt1(best.best_similarity)]]]
    ELSE [raised |-> FALSE, match_found |-> FALSE, match_type |-> "None",
          similarity |-> best.best_similarity,
          matched_fingerprint |-> <<>>, matched_index |-> 0,
          details |-> [message |-> "No significant match found",
                       highest_similarity |->
                           [tenths |-> Fmt1(best.best_similarity)]]]

\* what one pass through the loop body leaves: a return value, or the
\* locals for the next pass; face_compared tells whether the pass called
\* _check_face_similarity
Returned(result) ==
    [returned |-> TRUE, result |-> result, best |-> InitialBest,
     face_compared |-> FALSE]

Continue(best, face_compared) ==
    [returned |-> FALSE, result |-> RaisedResult, best |-> best,
     face_compared |-> face_compared]

\* the loop body, lines 48-89, for the entry at position i
ScanEntry(candidate, protected, i, best) ==
    LET protected_fp == protected.fingerprint
    IN  \* fingerprint_data.get / protected_fp.get on None: AttributeError
        IF candidate.t = "none" \/ protected_fp.t = "none"
        THEN Returned(RaisedResult)
        ELSE
        LET sha256_match == check_exact_match(Get(candidate.sha256),
                                              Get(protected_fp.sha256))
        IN  IF sha256_match.raised THEN Returned(RaisedResult)
            ELSE IF sha256_match.val THEN Returned(ExactResult(protected, i))
            ELSE
            LET perceptual_sim ==
                    check_perceptual_similarity(
                        Get(candidate.perceptual_hash),
                        Get(protected_fp.perceptual_hash))
            IN  IF perceptual_sim.raised THEN Returned(RaisedResult)
                ELSE
                LET best1 == UpdateBest(best, perceptual_sim.val,
                                        protected, i, "perceptual")
                IN  IF \/ Falsy(Get(candidate.face_embedding_hash))
                       \/ Falsy(Get(protected_fp.face_embedding_hash))
                    THEN Continue(best1, FALSE)
                    ELSE
                    LET face_sim ==
                            check_face_similarity(
                                Get(candidate.face_embedding_hash),
                                Get(protected_fp.face_embedding_hash))
                    IN  IF face_sim.raised THEN Returned(RaisedResult)
                        ELSE Continue(UpdateBest(best1, face_sim.val,
                                                 protected, i, "face"),
                                      TRUE)

\* the loop of lines 47-89, from entry i on
RECURSIVE Scan(_, _, _, _, _)
Scan(self, candidate, registry, i, best) ==
    IF i > Len(registry) THEN FinalResult(self, best)
    ELSE
    LET pass == ScanEntry(candidate, registry[i], i, best)
    IN  IF pass.returned THEN pass.result
        ELSE Scan(self, candidate, registry, i + 1, pass.best)

\* mutant: the empty registry is scanned like any other
verify_unguarded(self, candidate, registry) ==
    Scan(self, candidate, registry, 1, InitialBest)

\* VerificationEngine.verify
verify(self, candidate, registry) ==
    IF Len(registry) = 0 THEN EmptyRegistryResult
    ELSE Scan(self, candidate, registry, 1, InitialBest)

(***************************************************************************)
(* TrustAggregator                                                         *)
(*                                                                         *)
(* A number is Num(x) with x the exact rational; a field may also be       *)
(* Absent (key not in the dict), None, or Text(s), a string.  A channel    *)
(* argument is a dict (t = "dict") or None (t = "none"); a dict none of    *)
(* whose keys is present is the empty dict.                                *)
(*                                                                         *)
(* The overall risk is a double.  It is kept as [q, short]: q the exact    *)
(* quotient and short = TRUE when the double lies just below q.  That is   *)
(* the case when exactly two channels are present and one of them is the   *)
(* sensitive one: total_weight is then the double sum 0.4 + 0.2 =          *)
(* 0.6000000000000001, which is above 6/10, and the division by it falls   *)
(* short (80*0.4 + 50*0.2 divided by it is 69.99999999999999).  The other  *)
(* weight sums (0.4, 0.2, 0.8, 1.0) give a double that is not below q.     *)
(* On the inputs used below this agrees with the doubles of the code in    *)
(* every comparison and every rounding.                                    *)
(***************************************************************************)
Num(x) == [t |-> "num", x |-> x]

Text(s) == [t |-> "text", s |-> s]

Pct(k) == Rat(k, 1)

\* dict.get(key, default)
GetOr(x, default) == IF x.t = "absent" THEN default ELSE x

IsNum(x) == x.t = "num"

\* round(x, 1); no double of the code lies within its error of a tie
Round1(x) == Rat(Fmt1(x), 10)

NoDict ==
    [t |-> "none", classification |-> Absent, confidence |-> Absent,
     fake_news_likelihood |-> Absent, credibility_score |-> Absent,
     uncertain |-> Absent, sensitive_score |-> Absent,
     risk_score |-> Absent]

ImageDict(classification, confidence) ==
    [NoDict EXCEPT !.t = "dict", !.classification = classification,
                   !.confidence = confidence]

TextDict(likelihood, credibility, uncertain) ==
    [NoDict EXCEPT !.t = "dict", !.fake_news_likelihood = likelihood,
                   !.credibility_score = credibility,
                   !.uncertain = uncertain]

SafetyDict(sensitive_score, risk_score) ==
    [NoDict EXCEPT !.t = "dict", !.sensitive_score = sensitive_score,
                   !.risk_score = risk_score]

\* `if image_analysis:` - None and the empty dict are skipped
Truthy(dict) ==
    /\ dict.t = "dict"
    /\ \/ dict.classification # Absent \/ dict.confidence # Absent
       \/ dict.fake_news_likelihood # Absent
       \/ dict.credibility_score # Absent \/ dict.uncertain # Absent
       \/ dict.sensitive_score # Absent \/ dict.risk_score # Absent

\* __init__
TrustAggregator_init ==
    [weights |-> [image_analysis |-> Rat(4, 10),
                  fake_news |-> Rat(4, 10),
                  sensitive_content |-> Rat(2, 10)]]

\* x > k, for a number x
Above(x, k) == RatGT(x.x, Pct(k))

\* image_analysis.get('classification') == 'deepfake'
IsDeepfake(image) == Truthy(image) /\ image.classification = Text("deepfake")

\* fake_news_analysis.get('fake_news_likelihood', 0) > k
LikelihoodAbove(text, k) ==
    Truthy(text) /\ Above(GetOr(text.fake_news_likelihood, Num(Pct(0))), k)

\* mutant: a deepfake's risk is the classifier's confidence
image_risk_by_confidence(image) ==
    LET classification == GetOr(image.classification, Text("unknown"))
    IN  CASE classification = Text("deepfake") ->
                GetOr(image.confidence, Num(Pct(0))).x
          [] classification = Text("sensitive") -> Pct(40)
          [] classification = Text("real_safe") -> Pct(20)
          [] OTHER -> Pct(50)

\* lines 58-82: the image channel
image_risk(image) ==
    LET classification == GetOr(image.classification, Text("unknown"))
    IN  CASE classification = Text("deepfake") -> Pct(80)
          [] classification = Text("sensitive") -> Pct(40)
          [] classification = Text("real_safe") -> Pct(20)
          [] OTHER -> Pct(50)

image_explanation(image) ==
    LET classification == GetOr(image.classification, Text("unknown"))
        confidence == GetOr(image.confidence, Num(Pct(0)))
    IN  CASE classification = Text("deepfake") ->
                [clause |-> "Image manipulation detected (% confidence)",
                 value |-> <<Fmt1(confidence.x)>>]
          [] classification = Text("sensitive") ->
                [clause |-> "Sensitive content detected (% confidence)",
                 value |-> <<Fmt1(confidence.x)>>]
          [] classification = Text("real_safe") ->
                [clause |-> "Image appears authentic (% confidence)",
                 value |-> <<Fmt1(confidence.x)>>]
          [] OTHER ->
                [clause |-> "Image analysis inconclusive", value |-> <<>>]

\* the f-string of lines 66-72 formats the confidence, and sum(confidences)
\* at line 147 adds it: a TypeError unless it is a number
image_raises(image) ==
    ~IsNum(GetOr(image.confidence, Num(Pct(0))))

\* mutant: a likelihood of exactly 75 already counts as high
text_explanation_from75(text) ==
    LET fake_news_likelihood == GetOr(text.fake_news_likelihood, Num(Pct(0)))
        credibility_score == GetOr(text.credibility_score, Num(Pct(50)))
    IN  IF Above(fake_news_likelihood, 50)
        THEN IF RatGE(fake_news_likelihood.x, Pct(75))
             THEN [clause |-> "High fake news likelihood (%)",
                   value |-> <<Fmt1(fake_news_likelihood.x)>>]
             ELSE [clause |-> "Moderate fake news likelihood (%)",
                   value |-> <<Fmt1(fake_news_likelihood.x)>>]
        ELSE IF Above(credibility_score, 60)
        THEN [clause |-> "Content appears credible (%)",
              value |-> <<Fmt1(credibility_score.x)>>]
        ELSE [clause |-> "Text analysis results are uncertain",
              value |-> <<>>]

\* lines 84-106: the text channel
text_explanation(text) ==
    LET fake_news_likelihood == GetOr(text.fake_news_likelihood, Num(Pct(0)))
        credibility_score == GetOr(text.credibility_score, Num(Pct(50)))
    IN  IF Above(fake_news_likelihood, 50)
        THEN IF Above(fake_news_likelihood, 75)
             THEN [clause |-> "High fake news likelihood (%)",
                   value |-> <<Fmt1(fake_news_likelihood.x)>>]
             ELSE [clause |-> "Moderate fake news likelihood (%)",
                   value |-> <<Fmt1(fake_news_likelihood.x)>>]
        ELSE IF Above(credibility_score, 60)
        THEN [clause |-> "Content appears credible (%)",
              value |-> <<Fmt1(credibility_score.x)>>]
        ELSE [clause |-> "Text analysis results are uncertain",
              value |-> <<>>]

\* `fake_news_likelihood > 50` (line 93), `credibility_score > 60` (line 96,
\* reached when the likelihood is at most 50) and `100 - uncertain`
\* (line 145) raise TypeError unless the value is a number
text_raises(text) ==
    LET fake_news_likelihood == GetOr(text.fake_news_likelihood, Num(Pct(0)))
        credibility_score == GetOr(text.credibility_score, Num(Pct(50)))
        uncertain == GetOr(text.uncertain, Num(Pct(50)))
    IN  \/ ~IsNum(fake_news_likelihood)
        \/ (~Above(fake_news_likelihood, 50) /\ ~IsNum(credibility_score))
        \/ ~IsNum(uncertain)

\* lines 108-121: the sensitive-content channel; `sensitive_score > 50`
\* raises TypeError unless the score is a number
sensitive_raises(sensitive) ==
    ~IsNum(GetOr(sensitive.sensitive_score, Num(Pct(0))))

\* lines 123-129, over risk_scores, the list of <<name, risk, weight>>
RECURSIVE sum(_)
sum(list) ==
    IF list = <<>> THEN Pct(0) ELSE RatAdd(list[1], sum(Tail(list)))

\* overall_risk >= k, for the double overall_risk
AtLeast(overall_risk, k) ==
    \/ RatGT(overall_risk.q, Pct(k))
    \/ (overall_risk.q = Pct(k) /\ ~overall_risk.short)

Exact(q) == [q |-> q, short |-> FALSE]

\* mutant: the weighted sum is divided by the sum of all three weights
weighted_risk_all_weights(risk_scores) ==
    IF risk_scores # <<>>
    THEN Exact(sum([i \in 1..Len(risk_scores) |->
                       RatMul(risk_scores[i][2], risk_scores[i][3])]))
    ELSE Exact(Pct(50))

weighted_risk(risk_scores) ==
    IF risk_scores # <<>>
    THEN LET weighted_sum ==
                 sum([i \in 1..Len(risk_scores) |->
                         RatMul(risk_scores[i][2], risk_scores[i][3])])
             total_weight ==
                 sum([i \in 1..Len(risk_scores) |-> risk_scores[i][3]])
         IN  IF RatGT(total_weight, Pct(0))
             THEN [q |-> RatDiv(weighted_sum, total_weight),
                   short |-> /\ Len(risk_scores) = 2
                             /\ total_weight = Rat(6, 10)
                             /\ RatGT(weighted_sum, Pct(0))]
             ELSE Exact(Pct(50))
    ELSE Exact(Pct(50))

\* _determine_threat_category
determine_threat_category(overall_risk, image, text) ==
    IF AtLeast(overall_risk, 65)
    THEN IF IsDeepfake(image)
         THEN IF LikelihoodAbove(text, 50)
              THEN "Severe: Manipulated Media + Misinformation"
              ELSE "High: Manipulated Media"
         ELSE IF LikelihoodAbove(text, 50)
              THEN "High: Misinformation"
              ELSE "High: Multiple Risk Factors"
    ELSE IF AtLeast(overall_risk, 40)
    THEN IF IsDeepfake(image)
         THEN "Medium: Potential Media Manipulation"
         ELSE IF LikelihoodAbove(text, 40)
              THEN "Medium: Potential Misinformation"
              ELSE "Medium: Moderate Risk"
    ELSE IF AtLeast(overall_risk, 30)
    THEN "Low-Medium: Some Concerns"
    ELSE "Low: Generally Trustworthy"

\* mutant: the moderate-caution bracket starts above 50
generate_recommendations_above(overall_risk, threat_category, image, text) ==
    LET r1 == IF AtLeast(overall_risk, 70)
              THEN <<"High Risk: Exercise extreme caution with this content",
                     "Verify information through multiple independent sources",
                     "Do not share without verification">>
              ELSE IF RatGT(overall_risk.q, Pct(50))
              THEN <<"Moderate Risk: Verify before sharing",
                     "Check fact-checking websites">>
              ELSE <<>>
        r2 == IF IsDeepfake(image)
              THEN r1 \o <<"Image shows signs of manipulation - verify source">>
              ELSE r1
        r3 == IF LikelihoodAbove(text, 60)
              THEN r2 \o <<"Text contains indicators of misinformation",
                           "Cross-reference with credible news sources">>
              ELSE r2
        r4 == IF ~AtLeast(overall_risk, 30)
              THEN r3 \o <<"Content appears generally trustworthy",
                           "Still recommended to verify critical claims">>
              ELSE r3
    IN  IF r4 = <<>>
        THEN <<"Review analysis results for specific concerns">>
        ELSE r4

\* _generate_recommendations
generate_recommendations(overall_risk, threat_category, image, text) ==
    LET r1 == IF AtLeast(overall_risk, 70)
              THEN <<"High Risk: Exercise extreme caution with this content",
                     "Verify information through multiple independent sources",
                     "Do not share without verification">>
              ELSE IF AtLeast(overall_risk, 50)
              THEN <<"Moderate Risk: Verify before sharing",
                     "Check fact-checking websites">>
              ELSE <<>>
        r2 == IF IsDeepfake(image)
              THEN r1 \o <<"Image shows signs of manipulation - verify source">>
              ELSE r1
        r3 == IF LikelihoodAbove(text, 60)
              THEN r2 \o <<"Text contains indicators of misinformation",
                           "Cross-reference with credible news sources">>
              ELSE r2
        r4 == IF ~AtLeast(overall_risk, 30)
              THEN r3 \o <<"Content appears generally trustworthy",
                           "Still recommended to verify critical claims">>
              ELSE r3
    IN  IF r4 = <<>>
        THEN <<"Review analysis results for specific concerns">>
        ELSE r4

\* mutant: the text channel contributes its uncertainty
overall_confidence_uncertain(image, text) ==
    LET confidences ==
            (IF Truthy(image)
             THEN <<GetOr(image.confidence, Num(Pct(0))).x>> ELSE <<>>)
            \o (IF Truthy(text)
                THEN <<GetOr(text.uncertain, Num(Pct(50))).x>>
                ELSE <<>>)
    IN  IF confidences # <<>>
        THEN RatDiv(sum(confidences), Pct(Len(confidences)))
        ELSE Pct(50)

\* lines 138-147: the mean of the image confidence and of 100 minus the
\* text uncertainty
overall_confidence(image, text) ==
    LET confidences ==
            (IF Truthy(image)
             THEN <<GetOr(image.confidence, Num(Pct(0))).x>> ELSE <<>>)
            \o (IF Truthy(text)
                THEN <<RatSub(Pct(100),
                              GetOr(text.uncertain, Num(Pct(50))).x)>>
                ELSE <<>>)
    IN  IF confidences # <<>>
        THEN RatDiv(sum(confidences), Pct(Len(confidences)))
        ELSE Pct(50)

\* an exception propagating out of aggregate
RaisedVerdict ==
    [raised |-> TRUE, overall_trust_risk |-> Pct(0),
     threat_category |-> "none", confidence |-> Pct(0),
     module_results |-> <<>>, explanation |-> <<>>,
     recommendations |-> <<>>, overall_risk_unrounded |-> Exact(Pct(0))]

NoVerdict == [RaisedVerdict EXCEPT !.raised = FALSE,
                                   !.threat_category = "unset"]

\* TrustAggregator.aggregate; module_results and explanations are built in
\* the order image, fake_news, sensitive.  overall_risk_unrounded is the
\* local overall_trust_risk that the category and the recommendations are
\* computed from.
aggregate(self, image, text, sensitive) ==
    IF \/ (Truthy(image) /\ image_raises(image))
       \/ (Truthy(text) /\ text_raises(text))
       \/ (Truthy(sensitive) /\ sensitive_raises(sensitive))
    THEN RaisedVerdict
    ELSE
    LET classification == GetOr(image.classification, Text("unknown"))
        confidence == GetOr(image.confidence, Num(Pct(0)))
        fake_news_likelihood == GetOr(text.fake_news_likelihood, Num(Pct(0)))
        credibility_score == GetOr(text.credibility_score, Num(Pct(50)))
        sensitive_score == GetOr(sensitive.sensitive_score, Num(Pct(0)))
        image_part ==
            IF Truthy(image)
            THEN [results |-> <<[module |-> "image",
                                 risk |-> image_risk(image),
                                 classification |-> classification,
                                 confidence |-> confidence]>>,
                  scores |-> <<<<"image", image_risk(image),
                                 self.weights.image_analysis>>>>,
                  explanations |-> <<image_explanation(image)>>]
            ELSE [results |-> <<>>, scores |-> <<>>, explanations |-> <<>>]
        text_part ==
            IF Truthy(text)
            THEN [results |-> <<[module |-> "fake_news",
                                 risk |-> fake_news_likelihood.x,
                                 fake_news_likelihood |-> fake_news_likelihood,
                                 credibility_score |-> credibility_score]>>,
                  scores |-> <<<<"fake_news", fake_news_likelihood.x,
                                 self.weights.fake_news>>>>,
                  explanations |-> <<text_explanation(text)>>]
            ELSE [results |-> <<>>, scores |-> <<>>, explanations |-> <<>>]
        sensitive_part ==
            IF Truthy(sensitive)
            THEN [results |-> <<[module |-> "sensitive",
                                 risk |-> sensitive_score.x,
                                 score |-> sensitive_score]>>,
                  scores |-> <<<<"sensitive", sensitive_score.x,
                                 self.weights.sensitive_content>>>>,
                  explanations |->
                      IF Above(sensitive_score, 50)
                      THEN <<[clause |-> "Sensitive content detected (%)",
                              value |-> <<Fmt1(sensitive_score.x)>>]>>
                      ELSE <<>>]
            ELSE [results |-> <<>>, scores |-> <<>>, explanations |-> <<>>]
        module_results ==
            image_part.results \o text_part.results \o sensitive_part.results
        risk_scores ==
            image_part.scores \o text_part.scores \o sensitive_part.scores
        explanations ==
            image_part.explanations \o text_part.explanations
                \o sensitive_part.explanations
        overall_trust_risk == weighted_risk(risk_scores)
        threat_category ==
            determine_threat_category(overall_trust_risk, image, text)
        recommendations ==
            generate_recommendations(overall_trust_risk, threat_category,
                                     image, text)
    IN  [raised |-> FALSE,
         overall_trust_risk |-> Round1(overall_trust_risk.q),
         threat_category |-> threat_category,
         confidence |-> Round1(overall_confidence(image, text)),
         module_results |-> module_results,
         explanation |->
             IF explanations # <<>> THEN explanations
             ELSE <<[clause |-> "No analysis data available",
                     value |-> <<>>]>>,
         recommendations |-> recommendations,
         overall_risk_unrounded |-> overall_trust_risk]

(***************************************************************************)
(* BlockchainTraceability (modules/blockchain_layer.py)                    *)
(*                                                                         *)
(* A SHA-256 hex digest is kept as the record of what was hashed: equal    *)
(* inputs give equal digests and different inputs different ones.  The     *)
(* genesis hash, 64 zeros, is the digest of nothing.  A timestamp is the   *)
(* ISO string the clock gave; two calls may read the same one.             *)
(***************************************************************************)
\* "0" * 64
GenesisHash == [zeros |-> 64, of |-> <<>>]

\* hashlib.sha256(text.encode()).hexdigest()
sha256_hexdigest(text) == [zeros |-> 0, of |-> <<text>>]

\* json.dumps(data, sort_keys=True): the text is determined by the keys and
\* values, whatever order the dict was built in
json_dumps(data) == [json |-> data]

\* BlockchainTraceability(use_testnet)
BlockchainTraceability_init(testnet) ==
    [use_testnet |-> testnet, mock_chain |-> <<>>,
     last_block_hash |-> GenesisHash]

\* the transaction data register_fingerprint builds
TransactionData(fp, protection_flag, consent_status, timestamp) ==
    [fingerprint_id |-> Get(fp.fingerprint_id),
     sha256_hash |-> Get(fp.sha256),
     perceptual_hash |-> Get(fp.perceptual_hash),
     protection_flag |-> protection_flag,
     consent_status |-> consent_status,
     timestamp |-> timestamp,
     metadata_hash |-> Get(fp.metadata_hash)]

\* mutant: blocks are numbered from 1
create_block_from1(chain, previous, transaction_data) ==
    LET block_number == Len(chain) + 1
        transaction_id == sha256_hexdigest(json_dumps(transaction_data))
        block_header == [block_number |-> block_number,
                         previous_hash |-> previous,
                         timestamp |-> transaction_data.timestamp,
                         transaction_id |-> transaction_id,
                         merkle_root |-> transaction_id]
        block_hash == sha256_hexdigest(json_dumps(block_header))
    IN  [block_number |-> block_number,
         block_hash |-> block_hash,
         previous_hash |-> previous,
         transaction_id |-> transaction_id,
         transaction_data |-> transaction_data,
         timestamp |-> transaction_data.timestamp]

\* _create_block, with self.mock_chain and self.last_block_hash as it reads
\* them
create_block(chain, previous, transaction_data) ==
    LET block_number == Len(chain)
        transaction_id == sha256_hexdigest(json_dumps(transaction_data))
        block_header == [block_number |-> block_number,
                         previous_hash |-> previous,
                         timestamp |-> transaction_data.timestamp,
                         transaction_id |-> transaction_id,
                         merkle_root |-> transaction_id]
        block_hash == sha256_hexdigest(json_dumps(block_header))
    IN  [block_number |-> block_number,
         block_hash |-> block_hash,
         previous_hash |-> previous,
         transaction_id |-> transaction_id,
         transaction_data |-> transaction_data,
         timestamp |-> transaction_data.timestamp]

BlockchainType(testnet) == IF testnet THEN "mock_testnet" ELSE "production"

\* what register_fingerprint returns for the block it appended
RegistrationRecord(testnet, fp, protection_flag, consent_status, timestamp, block) ==
    [transaction_id |-> block.transaction_id,
     block_number |-> block.block_number,
     timestamp |-> timestamp,
     fingerprint_id |-> Get(fp.fingerprint_id),
     protection_flag |-> protection_flag,
     consent_status |-> consent_status,
     blockchain_type |-> BlockchainType(testnet),
     block_hash |-> block.block_hash,
     previous_hash |-> block.previous_hash]

\* the loop of verify_transaction from position i of the chain on
RECURSIVE FindTransaction(_, _, _)
FindTransaction(chain, transaction_id, i) ==
    IF i > Len(chain) THEN [verified |-> FALSE]
    ELSE IF chain[i].transaction_id = transaction_id
    THEN [verified |-> TRUE,
          block_number |-> chain[i].block_number,
          timestamp |-> chain[i].timestamp,
          block_hash |-> chain[i].block_hash]
    ELSE FindTransaction(chain, transaction_id, i + 1)

\* mutant: the newest block that carries the id answers
verify_transaction_latest(chain, transaction_id) ==
    LET hits == {i \in 1..Len(chain) :
                    chain[i].transaction_id = transaction_id}
    IN  IF hits = {} THEN [verified |-> FALSE]
        ELSE LET i == CHOOSE k \in hits : \A j \in hits : j <= k
             IN  [verified |-> TRUE,
                  block_number |-> chain[i].block_number,
                  timestamp |-> chain[i].timestamp,
                  block_hash |-> chain[i].block_hash]

\* verify_transaction
verify_transaction(chain, transaction_id) ==
    FindTransaction(chain, transaction_id, 1)

get_chain_info(testnet, chain, last) ==
    [chain_length |-> Len(chain),
     last_block_hash |-> last,
     blockchain_type |-> BlockchainType(testnet),
     genesis_block |-> IF chain # <<>> THEN <<chain[1]>> ELSE <<>>]

\* the value of ledger_result before any call
NoLedgerResult == [op |-> "none", arg |-> <<>>, value |-> <<>>]

(***************************************************************************)
(* Inputs                                                                  *)
(***************************************************************************)
\* a hash of the given length that differs from the all-"a" hash in its
\* first k positions
H(len, k) == [i \in 1..len |-> IF i <= k THEN "b" ELSE "a"]

Fingerprint(sha, phash, fhash) ==
    [t |-> "dict", sha256 |-> sha, perceptual_hash |-> phash,
     face_embedding_hash |-> fhash]

\* fingerprints as FingerprintGenerator.generate builds them: sha256 a
\* string, perceptual_hash a string, face_embedding_hash a string or None;
\* a candidate may also lack its perceptual hash.  Two 20-character hashes
\* that differ in 3 positions are 85.0% similar, two 8-character hashes that
\* differ in 1 position 87.5%.
RegisteredFingerprints ==
    {Fingerprint(Str(s), p, f) :
        s \in {<<"a", "b">>, <<"c", "d">>},
        p \in {Str(H(HexHashLen, 0)), Str(H(20, 3))},
        f \in {None, Str(H(8, 0))}}

CandidateFingerprints ==
    {Fingerprint(Str(s), p, f) :
        s \in {<<"A", "B">>, <<"c", "d">>},
        p \in {None, Str(H(HexHashLen, 0)), Str(H(HexHashLen, 2)),
               Str(H(HexHashLen, 3)), Str(H(20, 0))},
        f \in {Str(H(8, 0)), Str(H(8, 1))}}

\* the entry render_upload_analyze_tab appends
Entry(fp) == [fingerprint |-> fp, protection_flag |-> TRUE]

NoCandidate == [t |-> "none", sha256 |-> Absent, perceptual_hash |-> Absent,
                face_embedding_hash |-> Absent]

NoResult ==
    [raised |-> FALSE, match_found |-> FALSE, match_type |-> "unset",
     similarity |-> Rat(0, 1), matched_fingerprint |-> <<>>,
     matched_index |-> 0, details |-> [message |-> "unset"]]

(***************************************************************************)
(* The session                                                             *)
(***************************************************************************)
\* requests that may be inside verify at the same time, each call with
\* its own frame of locals
Requests == {"r1", "r2"}

\* a frame: the candidate, the list iterator's index, the locals, the
\* return value, the registry as passed, and whether a pass of this call
\* ran while another request was inside verify

NoCall ==
    [pc |-> "idle", candidate |-> NoCandidate, index |-> 0,
     best |-> InitialBest, result |-> NoResult, registry |-> <<>>,
     overlapped |-> FALSE]

Init ==
    /\ protected_fingerprints = <<>>
    /\ engine = VerificationEngine_init
    /\ fingerprint_data = NoCandidate
    /\ verification_result = NoResult
    /\ last_action = "init"
    /\ repeated = FALSE
    /\ aggregator = TrustAggregator_init
    /\ image_analysis = NoDict
    /\ fake_news_analysis = NoDict
    /\ sensitive_content = NoDict
    /\ trust_aggregation = NoVerdict
    /\ pc = "idle"
    /\ scan_index = 0
    /\ scan_best = InitialBest
    /\ registry_at_call = <<>>
    /\ calls = [r \in Requests |-> NoCall]
    /\ arg_hash1 = None
    /\ arg_hash2 = None
    /\ perceptual_similarity = <<>>
    /\ face_similarity = <<>>
    /\ pair_pass = <<>>
    /\ use_testnet = TRUE
    /\ mock_chain = <<>>
    /\ last_block_hash = GenesisHash
    /\ ledger_result = NoLedgerResult
    /\ issued = {}
    /\ registrations = 0

\* mutant: the run replaces the registry by the new entry
Register_replacing(fp) ==
    /\ Len(protected_fingerprints) < MaxRegistry
    /\ protected_fingerprints' = <<Entry(fp)>>
    /\ last_action' = "register"
    /\ repeated' = FALSE
    /\ UNCHANGED <<engine, fingerprint_data, verification_result>>
    /\ UNCHANGED aggregate_vars
    /\ UNCHANGED scan_vars
    /\ UNCHANGED similarity_vars
    /\ UNCHANGED ledger_vars

\* an analysis run with protection requested appends one entry
Register(fp) ==
    /\ Len(protected_fingerprints) < MaxRegistry
    /\ protected_fingerprints' = Append(protected_fingerprints, Entry(fp))
    /\ last_action' = "register"
    /\ repeated' = FALSE
    /\ UNCHANGED <<engine, fingerprint_data, verification_result>>
    /\ UNCHANGED aggregate_vars
    /\ UNCHANGED scan_vars
    /\ UNCHANGED similarity_vars
    /\ UNCHANGED ledger_vars

\* mutant: the call converts the threshold attribute to a percentage in
\* place instead of in a local
VerifyCall_scaling(fp) ==
    /\ fingerprint_data' = fp
    /\ verification_result' = verify(engine, fp, protected_fingerprints)
    /\ last_action' = "verify"
    /\ repeated' = (last_action = "verify" /\ fp = fingerprint_data)
    /\ engine' = [engine EXCEPT !.perceptual_similarity_threshold = 8500]
    /\ UNCHANGED protected_fingerprints
    /\ UNCHANGED aggregate_vars
    /\ UNCHANGED scan_vars
    /\ UNCHANGED similarity_vars
    /\ UNCHANGED ledger_vars

\* one call of engine.verify(fp, protected_fingerprints): the method reads
\* its arguments and the attributes of self and assigns to locals only
VerifyCall(fp) ==
    /\ fingerprint_data' = fp
    /\ verification_result' = verify(engine, fp, protected_fingerprints)
    /\ last_action' = "verify"
    /\ repeated' = (last_action = "verify" /\ fp = fingerprint_data)
    /\ UNCHANGED <<protected_fingerprints, engine>>
    /\ UNCHANGED aggregate_vars
    /\ UNCHANGED scan_vars
    /\ UNCHANGED similarity_vars
    /\ UNCHANGED ledger_vars

RegisterStep == \E fp \in RegisteredFingerprints : Register(fp)

VerifyStep == \E fp \in CandidateFingerprints : VerifyCall(fp)

NextVerify == RegisterStep \/ VerifyStep

SpecVerify == Init /\ [][NextVerify]_vars

(***************************************************************************)
(* Calls of aggregate: the arguments are drawn at the start, the call      *)
(* applies aggregate to them                                               *)
(***************************************************************************)
ImageInputs ==
    {NoDict}
    \cup {ImageDict(c, k) :
             c \in {Text("deepfake"), Text("sensitive"), Text("real_safe"),
                    Text("unknown"), Absent},
             k \in {Num(Pct(90)), Absent}}

Likelihoods == {0, 30, 40, 41, 50, 51, 60, 61, 75, 76, 80, 100}

TextInputs ==
    {NoDict}
    \cup {TextDict(Num(l), c, u) :
             l \in {Pct(k) : k \in Likelihoods} \cup {Rat(574, 10)},
             c \in {Num(Pct(20)), Num(Pct(61)), Absent},
             u \in {Num(Pct(10)), Num(Rat(3, 2)), Absent}}

\* the last record has the keys of ContentSafetyEngine.analyze's result
SafetyInputs ==
    {NoDict}
    \cup {SafetyDict(Num(Pct(x)), Absent) : x \in {0, 50, 51, 100}}
    \cup {SafetyDict(Absent, Num(Pct(100)))}

InitAggregate ==
    /\ protected_fingerprints = <<>>
    /\ engine = VerificationEngine_init
    /\ fingerprint_data = NoCandidate
    /\ verification_result = NoResult
    /\ last_action = "init"
    /\ repeated = FALSE
    /\ aggregator = TrustAggregator_init
    /\ image_analysis \in ImageInputs
    /\ fake_news_analysis \in TextInputs
    /\ sensitive_content \in SafetyInputs
    /\ trust_aggregation = NoVerdict
    /\ pc = "idle"
    /\ scan_index = 0
    /\ scan_best = InitialBest
    /\ registry_at_call = <<>>
    /\ calls = [r \in Requests |-> NoCall]
    /\ arg_hash1 = None
    /\ arg_hash2 = None
    /\ perceptual_similarity = <<>>
    /\ face_similarity = <<>>
    /\ pair_pass = <<>>
    /\ use_testnet = TRUE
    /\ mock_chain = <<>>
    /\ last_block_hash = GenesisHash
    /\ ledger_result = NoLedgerResult
    /\ issued = {}
    /\ registrations = 0

\* one call of aggregator.aggregate(image_analysis, fake_news_analysis,
\* sensitive_content)
AggregateCall ==
    /\ trust_aggregation' = aggregate(aggregator, image_analysis,
                                      fake_news_analysis, sensitive_content)
    /\ last_action' = "aggregate"
    /\ UNCHANGED <<protected_fingerprints, engine, fingerprint_data,
                   verification_result, repeated>>
    /\ UNCHANGED <<aggregator, image_analysis, fake_news_analysis,
                   sensitive_content>>
    /\ UNCHANGED scan_vars
    /\ UNCHANGED similarity_vars
    /\ UNCHANGED ledger_vars

NextAggregate == AggregateCall

SpecAggregate == InitAggregate /\ [][NextAggregate]_vars

\* arguments whose fields are None or strings where numbers are expected
AnyImageInputs ==
    {NoDict}
    \cup {ImageDict(c, k) :
             c \in {Text("deepfake"), Text("unknown"), Absent},
             k \in {Num(Pct(90)), None, Text("high"), Absent}}

AnyTextInputs ==
    {NoDict}
    \cup {TextDict(l, c, u) :
             l \in {Num(Pct(80)), Num(Pct(20)), None, Text("high")},
             c \in {Num(Pct(20)), None},
             u \in {Num(Pct(10)), None, Absent}}

AnySafetyInputs ==
    {NoDict}
    \cup {SafetyDict(x, Absent) : x \in {Num(Pct(60)), None, Text("high")}}

InitAggregateAny ==
    /\ protected_fingerprints = <<>>
    /\ engine = VerificationEngine_init
    /\ fingerprint_data = NoCandidate
    /\ verification_result = NoResult
    /\ last_action = "init"
    /\ repeated = FALSE
    /\ aggregator = TrustAggregator_init
    /\ image_analysis \in AnyImageInputs
    /\ fake_news_analysis \in AnyTextInputs
    /\ sensitive_content \in AnySafetyInputs
    /\ trust_aggregation = NoVerdict
    /\ pc = "idle"
    /\ scan_index = 0
    /\ scan_best = InitialBest
    /\ registry_at_call = <<>>
    /\ calls = [r \in Requests |-> NoCall]
    /\ arg_hash1 = None
    /\ arg_hash2 = None
    /\ perceptual_similarity = <<>>
    /\ face_similarity = <<>>
    /\ pair_pass = <<>>
    /\ use_testnet = TRUE
    /\ mock_chain = <<>>
    /\ last_block_hash = GenesisHash
    /\ ledger_result = NoLedgerResult
    /\ issued = {}
    /\ registrations = 0

SpecAggregateAny == InitAggregateAny /\ [][NextAggregate]_vars

(***************************************************************************)
(* Callers that pass anything: missing keys, None, empty strings, values   *)
(* that are not strings, entries without a fingerprint record              *)
(***************************************************************************)
AnyRegistered ==
    {Fingerprint(s, p, f) :
        s \in {Str(<<"a", "b">>), Absent, NonStr},
        p \in {Str(H(HexHashLen, 0)), NonStr},
        f \in {Str(H(8, 0)), Absent}}
    \cup {[t |-> k, sha256 |-> Absent, perceptual_hash |-> Absent,
           face_embedding_hash |-> Absent] : k \in {"none", "absent"}}

AnyCandidates ==
    {Fingerprint(s, p, f) :
        s \in {Str(<<"a", "b">>), Str(<<>>), None, NonStr},
        p \in {Str(H(HexHashLen, 0)), NonStr},
        f \in {Absent, NonStr}}
    \cup {NoCandidate}

RegisterAnyStep == \E fp \in AnyRegistered : Register(fp)

VerifyAnyStep == \E fp \in AnyCandidates : VerifyCall(fp)

NextVerifyAny == RegisterAnyStep \/ VerifyAnyStep

SpecVerifyAny == Init /\ [][NextVerifyAny]_vars

(***************************************************************************)
(* A verify call taken one loop pass at a time, with registrations by      *)
(* other code in between.  The for statement keeps an index into the list  *)
(* object it was given and asks at every pass whether the index is below   *)
(* the list's current length, so an entry appended before the iterator is  *)
(* exhausted is handed out like the others.                                *)
(***************************************************************************)
\* lines 34-45: the guard on the registry and the locals of the scan
BeginVerify(fp) ==
    /\ pc = "idle"
    /\ fingerprint_data' = fp
    /\ registry_at_call' = protected_fingerprints
    /\ scan_index' = 0
    /\ scan_best' = InitialBest
    /\ repeated' = FALSE
    /\ IF Len(protected_fingerprints) = 0
       THEN /\ verification_result' = EmptyRegistryResult
            /\ last_action' = "verify"
            /\ pc' = "idle"
       ELSE /\ verification_result' = NoResult
            /\ last_action' = "scan"
            /\ pc' = "scan"
    /\ UNCHANGED <<protected_fingerprints, engine, calls>>
    /\ UNCHANGED aggregate_vars
    /\ UNCHANGED similarity_vars
    /\ UNCHANGED ledger_vars

\* lines 47-113: one pass of the loop, or the decision after the last one
ScanStep ==
    /\ pc = "scan"
    /\ IF scan_index < Len(protected_fingerprints)
       THEN LET i == scan_index + 1
                pass == ScanEntry(fingerprint_data,
                                  protected_fingerprints[i], i, scan_best)
            IN  /\ scan_index' = i
                /\ IF pass.returned
                   THEN /\ verification_result' = pass.result
                        /\ last_action' = "verify"
                        /\ pc' = "idle"
                        /\ UNCHANGED scan_best
                   ELSE /\ scan_best' = pass.best
                        /\ UNCHANGED <<verification_result, last_action, pc>>
       ELSE /\ verification_result' = FinalResult(engine, scan_best)
            /\ last_action' = "verify"
            /\ pc' = "idle"
            /\ UNCHANGED <<scan_index, scan_best>>
    /\ UNCHANGED <<protected_fingerprints, engine, fingerprint_data,
                   repeated, registry_at_call, calls>>
    /\ UNCHANGED aggregate_vars
    /\ UNCHANGED similarity_vars
    /\ UNCHANGED ledger_vars

\* an append by other code: it leaves the call in progress where it is
AppendStep ==
    \E fp \in RegisteredFingerprints :
        /\ Len(protected_fingerprints) < MaxRegistry
        /\ protected_fingerprints' = Append(protected_fingerprints, Entry(fp))
        /\ UNCHANGED <<engine, fingerprint_data, verification_result,
                       last_action, repeated>>
        /\ UNCHANGED aggregate_vars
        /\ UNCHANGED scan_vars
        /\ UNCHANGED similarity_vars
    /\ UNCHANGED ledger_vars

BeginVerifyStep == \E fp \in CandidateFingerprints : BeginVerify(fp)

NextScan == BeginVerifyStep \/ ScanStep \/ AppendStep

SpecScan == Init /\ [][NextScan]_vars

(***************************************************************************)
(* Calls from independent requests on the shared engine and aggregator:    *)
(* every verify call runs pass by pass in its own frame, aggregate calls   *)
(* and the passes of the other request's verify call fall in between.      *)
(* Registrations happen while no verify call is in progress.               *)
(***************************************************************************)
SharedRegistered ==
    {Fingerprint(Str(<<"a", "b">>), Str(H(HexHashLen, 0)), None),
     Fingerprint(Str(<<"a", "b">>), Str(H(20, 3)), Str(H(8, 0)))}

SharedCandidates ==
    {Fingerprint(Str(<<"A", "B">>), Str(H(HexHashLen, 2)), Str(H(8, 1))),
     Fingerprint(Str(<<"c", "d">>), Str(H(HexHashLen, 0)), Str(H(8, 0))),
     Fingerprint(Str(<<"c", "d">>), Str(H(20, 0)), Str(H(8, 1)))}

InitShared ==
    /\ protected_fingerprints = <<>>
    /\ engine = VerificationEngine_init
    /\ fingerprint_data = NoCandidate
    /\ verification_result = NoResult
    /\ last_action = "init"
    /\ repeated = FALSE
    /\ aggregator = TrustAggregator_init
    /\ image_analysis
          \in {NoDict, ImageDict(Text("deepfake"), Num(Pct(90)))}
    /\ fake_news_analysis
          \in {NoDict, TextDict(Num(Pct(80)), Num(Pct(20)), Num(Pct(10)))}
    /\ sensitive_content = NoDict
    /\ trust_aggregation = NoVerdict
    /\ pc = "idle"
    /\ scan_index = 0
    /\ scan_best = InitialBest
    /\ registry_at_call = <<>>
    /\ calls = [r \in Requests |-> NoCall]
    /\ arg_hash1 = None
    /\ arg_hash2 = None
    /\ perceptual_similarity = <<>>
    /\ face_similarity = <<>>
    /\ pair_pass = <<>>
    /\ use_testnet = TRUE
    /\ mock_chain = <<>>
    /\ last_block_hash = GenesisHash
    /\ ledger_result = NoLedgerResult
    /\ issued = {}
    /\ registrations = 0

\* lines 34-45 in the frame of request r
CallBegin(r, fp) ==
    /\ calls[r].pc = "idle"
    /\ calls' = [calls EXCEPT ![r] =
           IF Len(protected_fingerprints) = 0
           THEN [pc |-> "idle", candidate |-> fp, index |-> 0,
                 best |-> InitialBest, result |-> EmptyRegistryResult,
                 registry |-> protected_fingerprints, overlapped |-> FALSE]
           ELSE [pc |-> "scan", candidate |-> fp, index |-> 0,
                 best |-> InitialBest, result |-> NoResult,
                 registry |-> protected_fingerprints, overlapped |-> FALSE]]
    /\ UNCHANGED verify_vars
    /\ UNCHANGED aggregate_vars
    /\ UNCHANGED <<pc, scan_index, scan_best, registry_at_call>>
    /\ UNCHANGED similarity_vars
    /\ UNCHANGED ledger_vars

\* mutant: the best match so far is kept in an attribute of the engine,
\* which all calls share
CallStep_shared(r) ==
    /\ calls[r].pc = "scan"
    /\ LET call == [calls[r] EXCEPT !.overlapped =
                       @ \/ \E o \in Requests \ {r} : calls[o].pc = "scan"]
       IN  IF call.index < Len(protected_fingerprints)
           THEN LET i == call.index + 1
                    pass == ScanEntry(call.candidate,
                                      protected_fingerprints[i], i, scan_best)
                IN  IF pass.returned
                    THEN /\ calls' = [calls EXCEPT ![r] =
                               [call EXCEPT !.index = i, !.pc = "idle",
                                            !.result = pass.result]]
                         /\ UNCHANGED scan_best
                    ELSE /\ calls' = [calls EXCEPT ![r] =
                               [call EXCEPT !.index = i]]
                         /\ scan_best' = pass.best
           ELSE /\ calls' = [calls EXCEPT ![r] =
                      [call EXCEPT !.pc = "idle",
                                   !.result = FinalResult(engine, scan_best)]]
                /\ UNCHANGED scan_best
    /\ UNCHANGED verify_vars
    /\ UNCHANGED aggregate_vars
    /\ UNCHANGED <<pc, scan_index, registry_at_call>>
    /\ UNCHANGED similarity_vars
    /\ UNCHANGED ledger_vars

\* lines 47-113 in the frame of request r: one pass of the loop, or the
\* decision after the last one
CallStep(r) ==
    /\ calls[r].pc = "scan"
    /\ LET call == [calls[r] EXCEPT !.overlapped =
                       @ \/ \E o \in Requests \ {r} : calls[o].pc = "scan"]
       IN  IF call.index < Len(protected_fingerprints)
           THEN LET i == call.index + 1
                    pass == ScanEntry(call.candidate,
                                      protected_fingerprints[i], i, call.best)
                IN  IF pass.returned
                    THEN /\ calls' = [calls EXCEPT ![r] =
                               [call EXCEPT !.index = i, !.pc = "idle",
                                            !.result = pass.result]]
                         /\ UNCHANGED scan_best
                    ELSE /\ calls' = [calls EXCEPT ![r] =
                               [call EXCEPT !.index = i, !.best = pass.best]]
                         /\ UNCHANGED scan_best
           ELSE /\ calls' = [calls EXCEPT ![r] =
                      [call EXCEPT !.pc = "idle",
                                   !.result = FinalResult(engine, call.best)]]
                /\ UNCHANGED scan_best
    /\ UNCHANGED verify_vars
    /\ UNCHANGED aggregate_vars
    /\ UNCHANGED <<pc, scan_index, registry_at_call>>
    /\ UNCHANGED similarity_vars
    /\ UNCHANGED ledger_vars

RegisterQuietStep ==
    /\ \A r \in Requests : calls[r].pc = "idle"
    /\ \E fp \in SharedRegistered : Register(fp)

CallBeginStep == \E r \in Requests, fp \in SharedCandidates : CallBegin(r, fp)

CallStepStep == \E r \in Requests : CallStep(r)

NextShared ==
    RegisterQuietStep \/ CallBeginStep \/ CallStepStep \/ AggregateCall

SpecShared == InitShared /\ [][NextShared]_vars

(***************************************************************************)
(* The similarity helpers applied to a pair of hashes: None, the empty     *)
(* string, every string over "a", "b" up to MaxHashLen characters, and     *)
(* hashes of 16 and 20 characters                                          *)
(***************************************************************************)
HashInputs ==
    {None, Str(<<>>)}
    \cup {Str(h) : h \in UNION {[1..n -> {"a", "b"}] : n \in 1..MaxHashLen}}
    \cup {Str(H(HexHashLen, k)) : k \in {0, 2, 3, HexHashLen}}
    \cup {Str([i \in 1..HexHashLen |-> IF i % 2 = 0 THEN "b" ELSE "a"])}
    \cup {Str(H(20, k)) : k \in {0, 3}}

InitSimilarity ==
    /\ protected_fingerprints = <<>>
    /\ engine = VerificationEngine_init
    /\ fingerprint_data = NoCandidate
    /\ verification_result = NoResult
    /\ last_action = "init"
    /\ repeated = FALSE
    /\ aggregator = TrustAggregator_init
    /\ image_analysis = NoDict
    /\ fake_news_analysis = NoDict
    /\ sensitive_content = NoDict
    /\ trust_aggregation = NoVerdict
    /\ pc = "idle"
    /\ scan_index = 0
    /\ scan_best = InitialBest
    /\ registry_at_call = <<>>
    /\ calls = [r \in Requests |-> NoCall]
    /\ arg_hash1 \in HashInputs
    /\ arg_hash2 \in HashInputs
    /\ perceptual_similarity = <<>>
    /\ face_similarity = <<>>
    /\ pair_pass = <<>>
    /\ use_testnet = TRUE
    /\ mock_chain = <<>>
    /\ last_block_hash = GenesisHash
    /\ ledger_result = NoLedgerResult
    /\ issued = {}
    /\ registrations = 0

\* self._check_perceptual_similarity(hash1, hash2)
ComparePerceptual ==
    /\ perceptual_similarity'
          = <<check_perceptual_similarity(arg_hash1, arg_hash2)>>
    /\ UNCHANGED <<arg_hash1, arg_hash2, face_similarity, pair_pass>>
    /\ UNCHANGED <<verify_vars, aggregate_vars, scan_vars, ledger_vars>>

\* self._check_face_similarity(hash1, hash2)
CompareFace ==
    /\ face_similarity' = <<check_face_similarity(arg_hash1, arg_hash2)>>
    /\ UNCHANGED <<arg_hash1, arg_hash2, perceptual_similarity, pair_pass>>
    /\ UNCHANGED <<verify_vars, aggregate_vars, scan_vars, ledger_vars>>

\* one pass of verify's loop for a candidate whose face hash is hash1 and
\* an entry whose face hash is hash2; their digests differ and the
\* candidate has no perceptual hash
ScanPair ==
    /\ pair_pass'
          = <<ScanEntry(Fingerprint(Str(<<"a", "b">>), None, arg_hash1),
                        Entry(Fingerprint(Str(<<"c", "d">>),
                                          Str(H(HexHashLen, 0)), arg_hash2)),
                        1, InitialBest)>>
    /\ UNCHANGED <<arg_hash1, arg_hash2, perceptual_similarity,
                   face_similarity>>
    /\ UNCHANGED <<verify_vars, aggregate_vars, scan_vars, ledger_vars>>

NextSimilarity == ComparePerceptual \/ CompareFace \/ ScanPair

SpecSimilarity == InitSimilarity /\ [][NextSimilarity]_vars

(***************************************************************************)
(* Calls on one ledger instance                                            *)
(***************************************************************************)
LedgerFingerprint(id, sha, phash, mhash) ==
    [t |-> "dict", fingerprint_id |-> id, sha256 |-> sha,
     perceptual_hash |-> phash, metadata_hash |-> mhash]

\* two fingerprints as FingerprintGenerator.generate builds them
LedgerFingerprints ==
    {LedgerFingerprint(Str(<<"f", "1">>), Str(<<"a", "b">>),
                       Str(H(HexHashLen, 0)), Str(<<"m", "1">>)),
     LedgerFingerprint(Str(<<"f", "2">>), Str(<<"c", "d">>),
                       Str(H(HexHashLen, 2)), Str(<<"m", "2">>))}

\* the readings of datetime.now(timezone.utc).isoformat()
Timestamps == {"2024-01-01T00:00:00+00:00", "2024-01-01T00:00:01+00:00"}

\* the ids of all transactions the calls below can make
TransactionIds ==
    {sha256_hexdigest(json_dumps(TransactionData(fp, p, TRUE, t))) :
        fp \in LedgerFingerprints, p \in BOOLEAN, t \in Timestamps}

InitLedger ==
    /\ protected_fingerprints = <<>>
    /\ engine = VerificationEngine_init
    /\ fingerprint_data = NoCandidate
    /\ verification_result = NoResult
    /\ last_action = "init"
    /\ repeated = FALSE
    /\ aggregator = TrustAggregator_init
    /\ image_analysis = NoDict
    /\ fake_news_analysis = NoDict
    /\ sensitive_content = NoDict
    /\ trust_aggregation = NoVerdict
    /\ pc = "idle"
    /\ scan_index = 0
    /\ scan_best = InitialBest
    /\ registry_at_call = <<>>
    /\ calls = [r \in Requests |-> NoCall]
    /\ arg_hash1 = None
    /\ arg_hash2 = None
    /\ perceptual_similarity = <<>>
    /\ face_similarity = <<>>
    /\ pair_pass = <<>>
    /\ \E testnet \in BOOLEAN :
          /\ use_testnet = BlockchainTraceability_init(testnet).use_testnet
          /\ mock_chain = BlockchainTraceability_init(testnet).mock_chain
          /\ last_block_hash
                = BlockchainTraceability_init(testnet).last_block_hash
    /\ ledger_result = NoLedgerResult
    /\ issued = {}
    /\ registrations = 0

\* register_fingerprint(fingerprint_data, protection_flag, consent_status)
\* with the clock reading timestamp
RegisterFingerprint(fp, protection_flag, consent_status, timestamp) ==
    /\ Len(mock_chain) < MaxBlocks
    /\ LET transaction_data ==
               TransactionData(fp, protection_flag, consent_status, timestamp)
           block == create_block(mock_chain, last_block_hash, transaction_data)
       IN  /\ mock_chain' = Append(mock_chain, block)
           /\ last_block_hash' = block.block_hash
           /\ ledger_result'
                 = [op |-> "register_fingerprint", arg |-> <<>>,
                    value |-> <<RegistrationRecord(
                                    use_testnet, fp, protection_flag,
                                    consent_status, timestamp, block)>>]
           /\ issued' = issued \cup {block.transaction_id}
    /\ registrations' = registrations + 1
    /\ UNCHANGED use_testnet
    /\ UNCHANGED <<verify_vars, aggregate_vars, scan_vars, similarity_vars>>

\* verify_transaction(transaction_id)
VerifyTransaction(transaction_id) ==
    /\ ledger_result'
          = [op |-> "verify_transaction", arg |-> <<transaction_id>>,
             value |-> <<verify_transaction(mock_chain, transaction_id)>>]
    /\ UNCHANGED <<use_testnet, mock_chain, last_block_hash, issued,
                   registrations>>
    /\ UNCHANGED <<verify_vars, aggregate_vars, scan_vars, similarity_vars>>

\* get_chain_info()
GetChainInfo ==
    /\ ledger_result'
          = [op |-> "get_chain_info", arg |-> <<>>,
             value |-> <<get_chain_info(use_testnet, mock_chain,
                                        last_block_hash)>>]
    /\ UNCHANGED <<use_testnet, mock_chain, last_block_hash, issued,
                   registrations>>
    /\ UNCHANGED <<verify_vars, aggregate_vars, scan_vars, similarity_vars>>

\* the application registers with consent_status=True
RegisterFingerprintStep ==
    \E fp \in LedgerFingerprints, p \in BOOLEAN, t \in Timestamps :
        RegisterFingerprint(fp, p, TRUE, t)

\* the id is one a registration can return, or a hex string that is no
\* transaction's id
VerifyTransactionStep ==
    \E id \in TransactionIds \cup {GenesisHash} : VerifyTransaction(id)

NextLedger ==
    RegisterFingerprintStep \/ VerifyTransactionStep \/ GetChainInfo

SpecLedger == InitLedger /\ [][NextLedger]_vars

(***************************************************************************)
(* Properties of verify                                                    *)
(***************************************************************************)
\* the latest operation was a verify call, so verification_result is its
\* decision on fingerprint_data against protected_fingerprints
Verified == last_action = "verify"

Registry == protected_fingerprints

\* the entries whose digest equals the candidate's, letter case ignored
ExactHits ==
    {i \in 1..Len(Registry) :
        LET a == fingerprint_data.sha256
            b == Registry[i].fingerprint.sha256
        IN  /\ a.t = "str" /\ b.t = "str" /\ a.v # <<>>
            /\ Lower(a.v) = Lower(b.v)}

SetMin(S) == CHOOSE x \in S : \A y \in S : x <= y

PerceptualSim(i) ==
    check_perceptual_similarity(
        Get(fingerprint_data.perceptual_hash),
        Get(Registry[i].fingerprint.perceptual_hash)).val

FaceCompared(i) ==
    /\ ~Falsy(Get(fingerprint_data.face_embedding_hash))
    /\ ~Falsy(Get(Registry[i].fingerprint.face_embedding_hash))

FaceSim(i) ==
    check_face_similarity(
        Get(fingerprint_data.face_embedding_hash),
        Get(Registry[i].fingerprint.face_embedding_hash)).val

\* the comparisons of a whole scan: <<position in scan order, entry,
\* metric, similarity>>
Comparisons ==
    {<<2 * i, i, "perceptual", PerceptualSim(i)>> : i \in 1..Len(Registry)}
    \cup {<<2 * i + 1, i, "face", FaceSim(i)>> :
             i \in {j \in 1..Len(Registry) : FaceCompared(j)}}

\* the highest similarity of the scan
BestOfScan ==
    (CHOOSE c \in Comparisons : \A o \in Comparisons : RatGE(c[4], o[4]))[4]

\* the first comparison of the scan that attains the highest similarity
FirstBest ==
    CHOOSE c \in Comparisons :
        /\ c[4] = BestOfScan
        /\ \A o \in Comparisons : o[4] = BestOfScan => c[1] <= o[1]

\* C1: if the candidate's sha256 equals, letter case ignored, that of some
\* entry of a non-empty registry, verify returns an exact match with
\* similarity 100 on the first such entry, whatever similarities the
\* entries before it have.
C1_ExactShortCircuit ==
    (Verified /\ ExactHits # {}) =>
        /\ ~verification_result.raised
        /\ verification_result.match_found
        /\ verification_result.match_type = "exact"
        /\ verification_result.similarity = Rat(100, 1)
        /\ verification_result.matched_index = SetMin(ExactHits)
        /\ verification_result.matched_fingerprint
               = <<Registry[SetMin(ExactHits)]>>

\* an exact match on the second entry, in another letter case, behind an
\* entry that is 100% perceptually similar
C1_Witness ==
    /\ Verified /\ ExactHits = {2}
    /\ fingerprint_data.sha256 # Registry[2].fingerprint.sha256
    /\ PerceptualSim(1) = Rat(100, 1)
    /\ verification_result.match_type = "exact"
    /\ verification_result.matched_index = 2

\* C4: without an exact match, verify reports a match if and only if the
\* best similarity of the scan is at least 85; against one entry with no
\* face comparison, two 16-character perceptual hashes match if and only
\* if at most 2 positions differ.
C4_ThresholdInclusive ==
    (Verified /\ Registry # <<>> /\ ExactHits = {}) =>
        /\ verification_result.match_found
               <=> RatGE(BestOfScan, Rat(85, 1))
        /\ \A i \in 1..Len(Registry) :
              LET a == Get(fingerprint_data.perceptual_hash)
                  b == Get(Registry[i].fingerprint.perceptual_hash)
              IN  (/\ Len(Registry) = 1 /\ ~FaceCompared(i)
                   /\ a.t = "str" /\ b.t = "str"
                   /\ Len(a.v) = 16 /\ Len(b.v) = 16)
                  => (verification_result.match_found
                         <=> Mismatches(a.v, b.v) <= 2)

\* a best similarity of exactly 85.0 is reported as a match
C4_Witness ==
    /\ Verified /\ Registry # <<>> /\ ExactHits = {}
    /\ BestOfScan = Rat(85, 1)
    /\ verification_result.match_found
    /\ verification_result.similarity = Rat(85, 1)

\* C5: verify never raises, whatever the candidate and the entries hold.
C5_NeverRaises == Verified => ~verification_result.raised

\* C8: without an exact match the reported similarity is the highest of
\* the scan, and a reported match is the first comparison in scan order
\* (entries in registry order, perceptual before face) that attains it.
C8_FirstBestWins ==
    (Verified /\ Registry # <<>> /\ ExactHits = {}) =>
        /\ verification_result.similarity = BestOfScan
        /\ verification_result.match_found =>
              /\ verification_result.matched_index = FirstBest[2]
              /\ verification_result.match_type = FirstBest[3]
              /\ verification_result.matched_fingerprint
                     = <<Registry[FirstBest[2]]>>

\* entry 1 has the candidate's perceptual hash, the later entry 2 has the
\* candidate's face hash: the perceptual match on entry 1 is reported
C8_Witness ==
    /\ Verified /\ Len(Registry) = 2 /\ ExactHits = {}
    /\ PerceptualSim(1) = Rat(100, 1) /\ ~FaceCompared(1)
    /\ FaceCompared(2) /\ FaceSim(2) = Rat(100, 1)
    /\ verification_result.match_found
    /\ verification_result.similarity = Rat(100, 1)
    /\ verification_result.match_type = "perceptual"
    /\ verification_result.matched_index = 1

\* C9: against an empty registry verify returns, without raising, no match,
\* match type none, similarity 0, no matched entry and the message that no
\* protected fingerprints are in the database.
C9_EmptyRegistry ==
    (Verified /\ Registry = <<>>) =>
        /\ ~verification_result.raised
        /\ ~verification_result.match_found
        /\ verification_result.match_type = "None"
        /\ verification_result.similarity = Rat(0, 1)
        /\ verification_result.matched_fingerprint = <<>>
        /\ verification_result.details
               = [message |-> "No protected fingerprints in database"]

C9_Witness ==
    /\ Verified /\ Registry = <<>>
    /\ fingerprint_data \in CandidateFingerprints

Aggregated == last_action = "aggregate"

Verdict == trust_aggregation

Supplied(dict) == dict.t = "dict" /\ dict # [NoDict EXCEPT !.t = "dict"]

\* the channels that were supplied
Present ==
    {c \in {"image", "fake_news", "sensitive"} :
        \/ (c = "image" /\ Supplied(image_analysis))
        \/ (c = "fake_news" /\ Supplied(fake_news_analysis))
        \/ (c = "sensitive" /\ Supplied(sensitive_content))}

\* the risk the per-module breakdown gives for a channel, 0 if absent
BreakdownRisk(c) ==
    LET rows == {i \in 1..Len(Verdict.module_results) :
                    Verdict.module_results[i].module = c}
    IN  IF rows = {} THEN Pct(0)
        ELSE Verdict.module_results[CHOOSE i \in rows : TRUE].risk

DefaultWeight(c) ==
    CASE c = "image" -> Rat(4, 10)
      [] c = "fake_news" -> Rat(4, 10)
      [] c = "sensitive" -> Rat(2, 10)

Share(c, x) == IF c \in Present THEN x ELSE Pct(0)

\* sum(risk_i * weight_i) / sum(weight_i) over the present channels
WeightedAverage ==
    RatDiv(
        RatAdd(Share("image", RatMul(BreakdownRisk("image"),
                                     DefaultWeight("image"))),
        RatAdd(Share("fake_news", RatMul(BreakdownRisk("fake_news"),
                                         DefaultWeight("fake_news"))),
               Share("sensitive", RatMul(BreakdownRisk("sensitive"),
                                         DefaultWeight("sensitive"))))),
        RatAdd(Share("image", DefaultWeight("image")),
        RatAdd(Share("fake_news", DefaultWeight("fake_news")),
               Share("sensitive", DefaultWeight("sensitive")))))

InRange(x) == RatGE(x, Pct(0)) /\ RatGE(Pct(100), x)

\* |a - b| <= 1/20
WithinHalfTenth(a, b) ==
    LET diff == a.n * b.d - b.n * a.d
    IN  20 * (IF diff >= 0 THEN diff ELSE 0 - diff) <= a.d * b.d

BreakdownMatchesPresent ==
    {Verdict.module_results[i].module :
        i \in 1..Len(Verdict.module_results)} = Present

\* C2 as stated: with at least one channel present, the overall risk is in
\* [0,100] and equals the weighted average of the present channels' risks.
C2_WeightedAverage ==
    (Aggregated /\ Present # {}) =>
        /\ BreakdownMatchesPresent
        /\ InRange(Verdict.overall_trust_risk)
        /\ Verdict.overall_trust_risk = WeightedAverage

\* C2 amended: the overall risk is in [0,100] and is the weighted average
\* of the present channels' risks rounded to one decimal place: a multiple
\* of 0.1 at most 0.05 away from it.
C2_RoundedAverage ==
    (Aggregated /\ Present # {}) =>
        /\ BreakdownMatchesPresent
        /\ InRange(Verdict.overall_trust_risk)
        /\ 10 % Verdict.overall_trust_risk.d = 0
        /\ WithinHalfTenth(Verdict.overall_trust_risk, WeightedAverage)

\* image and sensitive present, text absent: (80*0.4 + 0*0.2)/0.6 is
\* reported as 53.3
C2_Witness ==
    /\ Aggregated /\ Present = {"image", "sensitive"}
    /\ WeightedAverage = Rat(160, 3)
    /\ Verdict.overall_trust_risk = Rat(533, 10)

\* the reported overall risk is at least k
RiskAtLeast(k) == RatGE(Verdict.overall_trust_risk, Pct(k))

DeepfakeImage ==
    "image" \in Present /\ image_analysis.classification = Text("deepfake")

\* the text likelihood is above k (a missing likelihood counts as 0)
TextAbove(k) ==
    /\ "fake_news" \in Present
    /\ fake_news_analysis.fake_news_likelihood # Absent
    /\ RatGT(fake_news_analysis.fake_news_likelihood.x, Pct(k))

\* C3: the threat category follows from the overall risk in priority
\* order: >= 65 Severe (deepfake and likelihood > 50), High: Manipulated
\* Media (deepfake), High: Misinformation (likelihood > 50), else High:
\* Multiple Risk Factors; >= 40 Medium: Potential Media Manipulation
\* (deepfake), Medium: Potential Misinformation (likelihood > 40), else
\* Medium: Moderate Risk; >= 30 Low-Medium; below 30 Low.  A deepfake image
\* with text likelihood 80 and no safety channel gives overall risk 80 and
\* the Severe category.
C3_ThreatCategory ==
    (Aggregated /\ ~Verdict.raised) =>
        LET c == Verdict.threat_category
            high == RiskAtLeast(65)
            medium == ~RiskAtLeast(65) /\ RiskAtLeast(40)
        IN  /\ (high /\ DeepfakeImage /\ TextAbove(50))
                  => c = "Severe: Manipulated Media + Misinformation"
            /\ (high /\ DeepfakeImage /\ ~TextAbove(50))
                  => c = "High: Manipulated Media"
            /\ (high /\ ~DeepfakeImage /\ TextAbove(50))
                  => c = "High: Misinformation"
            /\ (high /\ ~DeepfakeImage /\ ~TextAbove(50))
                  => c = "High: Multiple Risk Factors"
            /\ (medium /\ DeepfakeImage)
                  => c = "Medium: Potential Media Manipulation"
            /\ (medium /\ ~DeepfakeImage /\ TextAbove(40))
                  => c = "Medium: Potential Misinformation"
            /\ (medium /\ ~DeepfakeImage /\ ~TextAbove(40))
                  => c = "Medium: Moderate Risk"
            /\ (~RiskAtLeast(40) /\ RiskAtLeast(30))
                  => c = "Low-Medium: Some Concerns"
            /\ ~RiskAtLeast(30) => c = "Low: Generally Trustworthy"
            /\ (/\ DeepfakeImage
                /\ "fake_news" \in Present
                /\ fake_news_analysis.fake_news_likelihood = Num(Pct(80))
                /\ "sensitive" \notin Present)
                  => /\ Verdict.overall_trust_risk = Pct(80)
                     /\ c = "Severe: Manipulated Media + Misinformation"

\* C6: aggregate never raises, whatever the fields of the channel records
\* hold; it returns a complete verdict.
C6_NeverRaises ==
    Aggregated =>
        /\ ~Verdict.raised
        /\ Verdict.recommendations # <<>>
        /\ Verdict.explanation # <<>>

\* C7: with all three channels absent the verdict is risk 50, 'Medium:
\* Moderate Risk', confidence 50, an empty breakdown, the explanation 'No
\* analysis data available' and exactly the two moderate-caution
\* recommendations.
C7_NoChannels ==
    (Aggregated /\ Present = {}) =>
        /\ ~Verdict.raised
        /\ Verdict.overall_trust_risk = Pct(50)
        /\ Verdict.threat_category = "Medium: Moderate Risk"
        /\ Verdict.confidence = Pct(50)
        /\ Verdict.module_results = <<>>
        /\ Verdict.explanation
              = <<[clause |-> "No analysis data available", value |-> <<>>]>>
        /\ Verdict.recommendations
              = <<"Moderate Risk: Verify before sharing",
                  "Check fact-checking websites">>

C7_Witness ==
    /\ Aggregated
    /\ image_analysis = NoDict
    /\ fake_news_analysis = NoDict
    /\ sensitive_content = NoDict
    /\ Verdict.threat_category = "Medium: Moderate Risk"

(***************************************************************************)
(* Properties of verify under concurrent registration                      *)
(***************************************************************************)
\* a verify call that was taken pass by pass has returned
ScanReturned == last_action = "verify" /\ pc = "idle"

\* C11: whatever is appended to the registry while verify scans it, the
\* decision verify returns is the one it returns on the registry as it was
\* when the call began; an appended entry is never the matched one.
C11_ScansSnapshot ==
    ScanReturned =>
        /\ verification_result
               = verify(engine, fingerprint_data, registry_at_call)
        /\ verification_result.matched_index <= Len(registry_at_call)

(***************************************************************************)
(* The order of the registry                                               *)
(***************************************************************************)
\* the registry with its entries in every order
Reorderings ==
    LET n == Len(Registry)
    IN  {[i \in 1..n |-> Registry[f[i]]] :
            f \in {g \in [1..n -> 1..n] :
                      \A i, j \in 1..n : g[i] = g[j] => i = j}}

\* the kinds of comparison that attain the highest similarity of the scan
TopKinds == {c[3] : c \in {o \in Comparisons : o[4] = BestOfScan}}

\* C12 as stated: in every order of the same entries verify returns the
\* same match_found, the same match_type and the same similarity.
C12_OrderIrrelevant ==
    Verified =>
        \A reordered \in Reorderings :
            LET other == verify(engine, fingerprint_data, reordered)
            IN  /\ other.match_found = verification_result.match_found
                /\ other.match_type = verification_result.match_type
                /\ other.similarity = verification_result.similarity

\* C12 amended: in every order of the same entries verify returns the same
\* match_found and the same similarity, and the same match_type unless a
\* perceptual and a face comparison tie for the highest similarity without
\* an exact match.
C12_OrderUpToTies ==
    Verified =>
        \A reordered \in Reorderings :
            LET other == verify(engine, fingerprint_data, reordered)
            IN  /\ other.match_found = verification_result.match_found
                /\ other.similarity = verification_result.similarity
                /\ (ExactHits # {} \/ Cardinality(TopKinds) <= 1)
                      => other.match_type = verification_result.match_type

\* two different entries, the less similar one first, and a similarity
\* match on the second
C12_Witness ==
    /\ Verified /\ Len(Registry) = 2 /\ ExactHits = {}
    /\ Registry[1] # Registry[2]
    /\ RatGT(PerceptualSim(2), PerceptualSim(1))
    /\ RatGT(PerceptualSim(1), Rat(0, 1))
    /\ Cardinality(TopKinds) = 1
    /\ verification_result.match_found
    /\ verification_result.matched_index = 2

(***************************************************************************)
(* The channels of aggregate                                               *)
(***************************************************************************)
\* the severity-derived score of the safety record: its sensitive_score,
\* or the risk_score ContentSafetyEngine.analyze puts in its result
SuppliedScore ==
    IF sensitive_content.sensitive_score # Absent
    THEN sensitive_content.sensitive_score.x
    ELSE IF sensitive_content.risk_score # Absent
    THEN sensitive_content.risk_score.x
    ELSE Pct(0)

HasClause(text) ==
    \E i \in 1..Len(Verdict.explanation) :
        Verdict.explanation[i].clause = text

\* C13: when a safety record is supplied, the risk of the safety channel in
\* the breakdown is the score the record carries (the risk_score of
\* ContentSafetyEngine.analyze in the application), alone it is the overall
\* risk, and the sensitive-content clause is in the explanation if and
\* only if that score is above 50.
C13_SafetyRisk ==
    (Aggregated /\ "sensitive" \in Present) =>
        /\ BreakdownRisk("sensitive") = SuppliedScore
        /\ Present = {"sensitive"}
              => Verdict.overall_trust_risk = Round1(SuppliedScore)
        /\ HasClause("Sensitive content detected (%)")
              <=> RatGT(SuppliedScore, Pct(50))

\* what a channel contributes to the confidence: the image its reported
\* confidence (0 if it reports none), the text 100 minus its uncertainty
\* (50 if it reports none)
ChannelConfidence(c) ==
    IF c = "image"
    THEN IF image_analysis.confidence = Absent THEN Pct(0)
         ELSE image_analysis.confidence.x
    ELSE IF fake_news_analysis.uncertain = Absent THEN Pct(50)
         ELSE RatSub(Pct(100), fake_news_analysis.uncertain.x)

\* the arithmetic mean of the available channel confidences, 50 if none
MeanConfidence ==
    LET both == {"image", "fake_news"} \subseteq Present
    IN  IF both
        THEN RatDiv(RatAdd(ChannelConfidence("image"),
                           ChannelConfidence("fake_news")), Pct(2))
        ELSE IF "image" \in Present THEN ChannelConfidence("image")
        ELSE IF "fake_news" \in Present THEN ChannelConfidence("fake_news")
        ELSE Pct(50)

Escalation ==
    <<"High Risk: Exercise extreme caution with this content",
      "Verify information through multiple independent sources",
      "Do not share without verification">>

ModerateCaution ==
    <<"Moderate Risk: Verify before sharing", "Check fact-checking websites">>

VerifySource == <<"Image shows signs of manipulation - verify source">>

Misinformation ==
    <<"Text contains indicators of misinformation",
      "Cross-reference with credible news sources">>

Reassurance ==
    <<"Content appears generally trustworthy",
      "Still recommended to verify critical claims">>

Generic == <<"Review analysis results for specific concerns">>

When(condition, strings) == IF condition THEN strings ELSE <<>>

\* the recommendations the rules give for the reported overall risk
SpecificRecommendations ==
    When(RiskAtLeast(70), Escalation)
    \o When(~RiskAtLeast(70) /\ RiskAtLeast(50), ModerateCaution)
    \o When(DeepfakeImage, VerifySource)
    \o When(TextAbove(60), Misinformation)
    \o When(~RiskAtLeast(30), Reassurance)

\* C15: the recommendations are, in this order, the three escalation
\* strings if the overall risk is >= 70, else the two moderate-caution
\* strings if it is >= 50; one verify-source string for a deepfake image;
\* two misinformation strings for a text likelihood > 60; two reassurance
\* strings if the overall risk is < 30; the generic string if and only if
\* nothing else was added.  The list is never empty and the generic string
\* never stands with another.
C15_Recommendations ==
    Aggregated =>
        /\ Verdict.recommendations
              = (IF SpecificRecommendations = <<>> THEN Generic
                 ELSE SpecificRecommendations)
        /\ Verdict.recommendations # <<>>
        /\ (\E i \in 1..Len(Verdict.recommendations) :
                Verdict.recommendations[i] = Generic[1])
              => Verdict.recommendations = Generic

(***************************************************************************)
(* The image channel                                                       *)
(***************************************************************************)
ImageClauses ==
    {"Image manipulation detected (% confidence)",
     "Sensitive content detected (% confidence)",
     "Image appears authentic (% confidence)",
     "Image analysis inconclusive"}

\* C16: when the image channel is present its risk is 80 for 'deepfake',
\* 40 for 'sensitive', 20 for 'real_safe' and 50 for any other or missing
\* classification, whatever the confidence; alone it is the overall risk;
\* exactly one explanation clause, the one of that case, is appended.
C16_ImageRisk ==
    (Aggregated /\ "image" \in Present) =>
        LET c == image_analysis.classification
            case == CASE c = Text("deepfake") ->
                           <<80, "Image manipulation detected (% confidence)">>
                      [] c = Text("sensitive") ->
                           <<40, "Sensitive content detected (% confidence)">>
                      [] c = Text("real_safe") ->
                           <<20, "Image appears authentic (% confidence)">>
                      [] OTHER -> <<50, "Image analysis inconclusive">>
        IN  /\ BreakdownRisk("image") = Pct(case[1])
            /\ Present = {"image"} => Verdict.overall_trust_risk = Pct(case[1])
            /\ Verdict.explanation[1].clause = case[2]
            /\ Cardinality({i \in 1..Len(Verdict.explanation) :
                               Verdict.explanation[i].clause \in ImageClauses})
                  = 1

\* a deepfake reported without a confidence still has risk 80
C16_Witness ==
    /\ Aggregated
    /\ Present = {"image"}
    /\ image_analysis.classification = Text("deepfake")
    /\ image_analysis.confidence = Absent
    /\ Verdict.overall_trust_risk = Pct(80)
    /\ Len(Verdict.explanation) = 1

(***************************************************************************)
(* Purity                                                                  *)
(***************************************************************************)
HasReturned(r) == calls[r].pc = "idle" /\ calls[r].result # NoResult

\* C17: verify and aggregate modify neither their arguments nor the
\* thresholds and weights of the shared engine and aggregator, and however
\* the calls of independent requests interleave, each call returns what it
\* returns when it runs alone.
C17_PureCalls ==
    /\ engine = VerificationEngine_init
    /\ aggregator = TrustAggregator_init
    /\ \A r \in Requests :
          /\ calls[r].pc = "scan" => calls[r].registry = protected_fingerprints
          /\ HasReturned(r) =>
                calls[r].result = verify(VerificationEngine_init,
                                         calls[r].candidate,
                                         calls[r].registry)
    /\ trust_aggregation # NoVerdict =>
          trust_aggregation = aggregate(TrustAggregator_init, image_analysis,
                                        fake_news_analysis, sensitive_content)

\* two calls whose passes interleaved have returned, one with a perceptual
\* match and one without a match, and an aggregate call was made
C17_Witness ==
    /\ trust_aggregation # NoVerdict
    /\ \A r \in Requests : HasReturned(r) /\ calls[r].overlapped
    /\ calls["r1"].result.match_type = "perceptual"
    /\ ~calls["r2"].result.match_found
    /\ RatGT(calls["r2"].result.similarity, Rat(0, 1))

(***************************************************************************)
(* Properties of the similarity helpers                                    *)
(***************************************************************************)
Missing(h) == h = None \/ h = Str(<<>>)

Positions(a, b) == 1..(IF Len(a) <= Len(b) THEN Len(a) ELSE Len(b))

\* C18: the perceptual similarity of two hashes is 0 when either is
\* missing or empty; for two hashes of one length it is
\* (1 - mismatched positions / length) * 100; for hashes of different
\* lengths it is matching positions / longer length * 100, positions
\* compared up to the shorter length.  On hashes of one length the Hamming
\* branch and the character-wise fallback agree.
C18_PerceptualSimilarity ==
    perceptual_similarity # <<>> =>
        LET result == perceptual_similarity[1]
            a == arg_hash1.v
            b == arg_hash2.v
            mismatched == Cardinality({i \in Positions(a, b) : a[i] # b[i]})
            matching == Cardinality({i \in Positions(a, b) : a[i] = b[i]})
        IN  /\ ~result.raised
            /\ (Missing(arg_hash1) \/ Missing(arg_hash2))
                  => result.val = Rat(0, 1)
            /\ (~Missing(arg_hash1) /\ ~Missing(arg_hash2)
                   /\ Len(a) = Len(b))
                  => /\ result.val.n * Len(a)
                          = (Len(a) - mismatched) * 100 * result.val.d
                     /\ result.val = char_similarity(arg_hash1, arg_hash2).val
            /\ (~Missing(arg_hash1) /\ ~Missing(arg_hash2)
                   /\ Len(a) # Len(b))
                  => result.val.n * (IF Len(a) >= Len(b) THEN Len(a)
                                     ELSE Len(b))
                        = matching * 100 * result.val.d

\* two 16-character hashes that differ in 3 positions: 81.25
C18_Witness ==
    /\ perceptual_similarity # <<>>
    /\ arg_hash1 = Str(H(HexHashLen, 3))
    /\ arg_hash2 = Str(H(HexHashLen, 0))
    /\ perceptual_similarity[1].val = Rat(325, 4)

(***************************************************************************)
(* The similarity of a scan without a match                                *)
(***************************************************************************)
\* the similarities of all comparisons of the scan: the perceptual one of
\* every entry, the face one where candidate and entry carry a face hash
ScanSimilarities == {c[4] : c \in Comparisons}

\* C19: when verify finds no match in a non-empty registry, the similarity
\* it reports is the highest of the perceptual similarities with all
\* entries and of the face similarities with the entries where both sides
\* carry a face hash; it is below 85, and it is 0 only if every comparison
\* gave 0.
C19_BestReported ==
    (Verified /\ Registry # <<>> /\ ~verification_result.match_found) =>
        /\ ExactHits = {}
        /\ verification_result.similarity \in ScanSimilarities
        /\ \A x \in ScanSimilarities :
              RatGE(verification_result.similarity, x)
        /\ ~RatGE(verification_result.similarity, Rat(85, 1))
        /\ verification_result.similarity = Rat(0, 1)
              <=> ScanSimilarities = {Rat(0, 1)}

\* no match against two entries: 80 with the first, 81.25 with the second
C19_Witness ==
    /\ Verified /\ Len(Registry) = 2
    /\ ~verification_result.match_found
    /\ PerceptualSim(1) = Rat(80, 1)
    /\ PerceptualSim(2) = Rat(325, 4)
    /\ verification_result.similarity = Rat(325, 4)

\* C20: a loop pass makes the face comparison if and only if the candidate
\* and the entry both carry a non-empty face hash, and the comparison then
\* counts with the similarity the perceptual rule gives for the two
\* hashes; on every pair of non-empty strings _check_face_similarity and
\* _check_perceptual_similarity return the same value.
C20_FaceRule ==
    LET both == ~Missing(arg_hash1) /\ ~Missing(arg_hash2)
        rule == check_perceptual_similarity(arg_hash1, arg_hash2).val
    IN  /\ (both /\ perceptual_similarity # <<>> /\ face_similarity # <<>>)
              => face_similarity[1] = perceptual_similarity[1]
        /\ (both /\ face_similarity # <<>>)
              => face_similarity[1] = Ok(rule)
        /\ pair_pass # <<>> =>
              /\ ~pair_pass[1].returned
              /\ pair_pass[1].face_compared <=> both
              /\ pair_pass[1].best.best_similarity
                    = (IF both THEN rule ELSE Rat(0, 1))
              /\ (both /\ RatGT(rule, Rat(0, 1)))
                    => pair_pass[1].best.best_match_type = "face"

\* two 16-character face hashes that differ in 2 positions: both helpers
\* give 87.5 and the loop pass records a face comparison of 87.5
C20_Witness ==
    /\ arg_hash1 = Str(H(HexHashLen, 2))
    /\ arg_hash2 = Str(H(HexHashLen, 0))
    /\ perceptual_similarity = <<Ok(Rat(175, 2))>>
    /\ face_similarity = <<Ok(Rat(175, 2))>>
    /\ pair_pass # <<>>
    /\ pair_pass[1].face_compared
    /\ pair_pass[1].best.best_similarity = Rat(175, 2)

(***************************************************************************)
(* The text channel                                                        *)
(***************************************************************************)
TextClauses ==
    {"High fake news likelihood (%)", "Moderate fake news likelihood (%)",
     "Content appears credible (%)", "Text analysis results are uncertain"}

\* C21: when the text channel is present its risk is the supplied
\* fake_news_likelihood, alone it is the overall risk, and exactly one text
\* clause is in the explanation: 'High fake news likelihood' for a
\* likelihood > 75, 'Moderate fake news likelihood' for 50 < likelihood
\* <= 75, otherwise 'appears credible' for a credibility_score > 60,
\* otherwise 'uncertain'.
C21_TextRisk ==
    (Aggregated /\ "fake_news" \in Present
       /\ fake_news_analysis.fake_news_likelihood # Absent) =>
        LET likelihood == fake_news_analysis.fake_news_likelihood.x
            credible ==
                /\ fake_news_analysis.credibility_score # Absent
                /\ RatGT(fake_news_analysis.credibility_score.x, Pct(60))
            expected ==
                IF RatGT(likelihood, Pct(75))
                THEN "High fake news likelihood (%)"
                ELSE IF RatGT(likelihood, Pct(50))
                THEN "Moderate fake news likelihood (%)"
                ELSE IF credible THEN "Content appears credible (%)"
                ELSE "Text analysis results are uncertain"
            clauses == {i \in 1..Len(Verdict.explanation) :
                           Verdict.explanation[i].clause \in TextClauses}
        IN  /\ BreakdownRisk("fake_news") = likelihood
            /\ Present = {"fake_news"}
                  => Verdict.overall_trust_risk = Round1(likelihood)
            /\ Cardinality(clauses) = 1
            /\ \A i \in clauses : Verdict.explanation[i].clause = expected

\* a likelihood of exactly 75, with a credibility above 60, is 'Moderate'
C21_Witness ==
    /\ Aggregated /\ Present = {"fake_news"}
    /\ fake_news_analysis.fake_news_likelihood = Num(Pct(75))
    /\ fake_news_analysis.credibility_score = Num(Pct(61))
    /\ Verdict.overall_trust_risk = Pct(75)
    /\ Verdict.explanation[1].clause = "Moderate fake news likelihood (%)"


HighCategories ==
    {"Severe: Manipulated Media + Misinformation", "High: Manipulated Media",
     "High: Misinformation", "High: Multiple Risk Factors"}

MediumCategories ==
    {"Medium: Potential Media Manipulation",
     "Medium: Potential Misinformation", "Medium: Moderate Risk"}

\* C22: in every returned verdict the threat category agrees with the
\* returned overall risk: the returned risk is >= 65 exactly when the
\* category is a Severe/High one, in [40,65) exactly when it is a Medium
\* one, in [30,40) exactly when it is Low-Medium: Some Concerns, and below
\* 30 exactly when it is Low: Generally Trustworthy.
C22_CategoryAgreesWithRisk ==
    (Aggregated /\ ~Verdict.raised) =>
        LET c == Verdict.threat_category
        IN  /\ RiskAtLeast(65) <=> c \in HighCategories
            /\ (RiskAtLeast(40) /\ ~RiskAtLeast(65)) <=> c \in MediumCategories
            /\ (RiskAtLeast(30) /\ ~RiskAtLeast(40))
                  <=> c = "Low-Medium: Some Concerns"
            /\ ~RiskAtLeast(30) <=> c = "Low: Generally Trustworthy"

\* C23: a match of type face is reported only when the similarity it carries
\* is at least the engine's face_match_threshold (90), and a match of type
\* perceptual only when it is at least perceptual_similarity_threshold (85).
C23_FaceThreshold ==
    (Verified /\ ~verification_result.raised
        /\ verification_result.match_found) =>
        /\ verification_result.match_type = "face"
              => RatGE(verification_result.similarity,
                       Rat(engine.face_match_threshold, 1))
        /\ verification_result.match_type = "perceptual"
              => RatGE(verification_result.similarity,
                       Rat(engine.perceptual_similarity_threshold, 1))

\* C24: every result verify returns is internally consistent: match_found
\* is true exactly when match_type is not None and exactly when a matched
\* entry is given; a found match names an entry of the registry passed in,
\* has type exact, perceptual or face and similarity >= 85 (100 for exact);
\* a result without a match has similarity below 85.
C24_DecisionConsistent ==
    (Verified /\ ~verification_result.raised) =>
        LET r == verification_result
        IN  /\ r.match_found <=> r.match_type # "None"
            /\ r.match_found <=> r.matched_fingerprint # <<>>
            /\ r.match_found =>
                  /\ r.matched_index \in 1..Len(Registry)
                  /\ r.matched_fingerprint = <<Registry[r.matched_index]>>
                  /\ r.match_type \in {"exact", "perceptual", "face"}
                  /\ RatGE(r.similarity, Rat(85, 1))
                  /\ r.match_type = "exact" => r.similarity = Rat(100, 1)
            /\ ~r.match_found => ~RatGE(r.similarity, Rat(85, 1))

\* a face match on the second of two entries
C24_Witness ==
    /\ Verified /\ Len(Registry) = 2
    /\ verification_result.match_found
    /\ verification_result.match_type = "face"
    /\ verification_result.matched_index = 2

\* the entries that carry the very digest of the candidate
SameDigest ==
    {i \in 1..Len(Registry) :
        /\ fingerprint_data.sha256.t = "str"
        /\ fingerprint_data.sha256.v # <<>>
        /\ Registry[i].fingerprint.sha256 = fingerprint_data.sha256}

\* a step leaves the registry alone or adds one entry at its end
AppendOnly ==
    \/ protected_fingerprints' = protected_fingerprints
    \/ /\ Len(protected_fingerprints') = Len(protected_fingerprints) + 1
       /\ SubSeq(protected_fingerprints', 1, Len(protected_fingerprints))
              = protected_fingerprints

\* C25: the registry is append-only: a step adds at most one entry at the
\* end and never removes or rewrites an entry; so every verification of
\* content whose sha256 equals that of a registered fingerprint returns an
\* exact match, whatever entries were registered before or after it.
C25_RegisteredStaysExact ==
    /\ [][AppendOnly]_vars
    /\ [](Verified /\ SameDigest # {} =>
             /\ ~verification_result.raised
             /\ verification_result.match_found
             /\ verification_result.match_type = "exact"
             /\ verification_result.matched_index \in SameDigest)

\* content registered first is verified after another entry was registered
\* behind it
C25_Witness ==
    /\ Verified /\ Len(Registry) = 2
    /\ SameDigest = {1}
    /\ verification_result.match_type = "exact"
    /\ verification_result.matched_index = 1

Recommended(strings) ==
    \A k \in 1..Len(strings) :
        \E i \in 1..Len(Verdict.recommendations) :
            Verdict.recommendations[i] = strings[k]

\* C26: when the image is classified deepfake or the text likelihood is
\* above 60, the overall risk is at least 30 whatever the other channels
\* are, the verdict is not Low: Generally Trustworthy, and the reassurance
\* strings are not recommended; so the reassurance strings never share a
\* list with the verify-source string or the misinformation strings.
C26_NeverReassuring ==
    (Aggregated /\ ~Verdict.raised) =>
        /\ (DeepfakeImage \/ TextAbove(60)) =>
              /\ AtLeast(Verdict.overall_risk_unrounded, 30)
              /\ RiskAtLeast(30)
              /\ Verdict.threat_category # "Low: Generally Trustworthy"
              /\ \A k \in 1..Len(Reassurance) :
                    ~Recommended(<<Reassurance[k]>>)
        /\ (\E k \in 1..Len(Reassurance) : Recommended(<<Reassurance[k]>>))
              => /\ ~Recommended(VerifySource)
                 /\ \A k \in 1..Len(Misinformation) :
                       ~Recommended(<<Misinformation[k]>>)

\* the lowest case: a deepfake image with text likelihood 0 and safety
\* score 0 gives overall risk 32
C26_Witness ==
    /\ Aggregated /\ DeepfakeImage
    /\ Present = {"image", "fake_news", "sensitive"}
    /\ fake_news_analysis.fake_news_likelihood = Num(Pct(0))
    /\ SuppliedScore = Pct(0)
    /\ Verdict.overall_trust_risk = Pct(32)
    /\ Verdict.threat_category = "Low-Medium: Some Concerns"
    /\ Recommended(VerifySource)

\* two strings of the same length with the same symbol at every position
Identical(a, b) ==
    /\ Len(a) = Len(b)
    /\ \A i \in 1..Len(a) : a[i] = b[i]

\* what C27 says of a result, given the result for the swapped arguments
SymmetricBounded(result, swapped) ==
    /\ ~result.raised
    /\ result = swapped
    /\ InRange(result.val)
    /\ (~Missing(arg_hash1) /\ ~Missing(arg_hash2)) =>
          (result.val = Rat(100, 1) <=> Identical(arg_hash1.v, arg_hash2.v))

\* C27: the perceptual and the face similarity are symmetric in their two
\* arguments, lie in [0,100], and are 100 for two non-empty strings if and
\* only if the strings are identical.
C27_SymmetricBounded ==
    /\ perceptual_similarity # <<>> =>
          SymmetricBounded(perceptual_similarity[1],
                           check_perceptual_similarity(arg_hash2, arg_hash1))
    /\ face_similarity # <<>> =>
          SymmetricBounded(face_similarity[1],
                           check_face_similarity(arg_hash2, arg_hash1))

\* both helpers applied to a one-character and a two-character hash that
\* agree in the first position
C27_Witness ==
    /\ perceptual_similarity # <<>> /\ face_similarity # <<>>
    /\ ~Missing(arg_hash1) /\ ~Missing(arg_hash2)
    /\ Len(arg_hash1.v) = 1 /\ Len(arg_hash2.v) = 2
    /\ perceptual_similarity[1].val = Rat(50, 1)
    /\ face_similarity[1].val = Rat(50, 1)

(***************************************************************************)
(* Properties of the ledger                                                *)
(***************************************************************************)
\* block k of the chain, counted from 0 as the code counts
Block(k) == mock_chain[k + 1]

\* a step leaves the chain alone or adds one block at its end
ChainExtended ==
    \/ mock_chain' = mock_chain
    \/ /\ Len(mock_chain') = Len(mock_chain) + 1
       /\ SubSeq(mock_chain', 1, Len(mock_chain)) = mock_chain

\* C28: after any sequence of register_fingerprint calls the chain has one
\* block per call, block k has block_number k, block 0 has the 64-zero
\* genesis hash as previous_hash and every later block the block_hash of
\* the block before it, last_block_hash is the block_hash of the last
\* block, and a step never modifies, reorders or removes a block of the
\* chain.
C28_ChainLinked ==
    /\ [](/\ Len(mock_chain) = registrations
          /\ \A k \in 0..(Len(mock_chain) - 1) :
                /\ Block(k).block_number = k
                /\ Block(k).previous_hash
                      = IF k = 0 THEN GenesisHash
                        ELSE Block(k - 1).block_hash
          /\ mock_chain # <<>> =>
                last_block_hash = Block(Len(mock_chain) - 1).block_hash)
    /\ [][ChainExtended]_vars

\* two registrations: the second block points at the first, the first at
\* the genesis hash
C28_Witness ==
    /\ registrations = 2 /\ Len(mock_chain) = 2
    /\ ledger_result.op = "register_fingerprint"
    /\ ledger_result.value[1].block_number = 1
    /\ Block(1).previous_hash = Block(0).block_hash
    /\ Block(0).previous_hash = GenesisHash
    /\ last_block_hash = Block(1).block_hash
    /\ last_block_hash # Block(0).block_hash

\* the latest call was verify_transaction
Checked == ledger_result.op = "verify_transaction"

\* the positions of the blocks that carry the id
Carriers(id) ==
    {i \in 1..Len(mock_chain) : mock_chain[i].transaction_id = id}

\* C29: for an id that an earlier register_fingerprint returned,
\* verify_transaction returns verified with the block_number, timestamp and
\* block_hash of the earliest block carrying the id; for an id never
\* returned it returns verified False; a verify_transaction or
\* get_chain_info call leaves the chain and last_block_hash unchanged.
C29_TransactionFound ==
    /\ [](Checked =>
            LET id == ledger_result.arg[1]
                result == ledger_result.value[1]
            IN  /\ id \in issued =>
                      /\ Carriers(id) # {}
                      /\ LET block == mock_chain[SetMin(Carriers(id))]
                         IN  result = [verified |-> TRUE,
                                       block_number |-> block.block_number,
                                       timestamp |-> block.timestamp,
                                       block_hash |-> block.block_hash]
                /\ id \notin issued => result = [verified |-> FALSE])
    /\ [][ledger_result'.op \in {"verify_transaction", "get_chain_info"}
             => UNCHANGED <<mock_chain, last_block_hash>>]_vars

\* an id carried by two blocks is looked up: the first block answers
C29_Witness ==
    /\ Checked
    /\ ledger_result.arg[1] \in issued
    /\ Carriers(ledger_result.arg[1]) = {1, 2}
    /\ ledger_result.value[1].verified
    /\ ledger_result.value[1].block_number = 0
    /\ ledger_result.value[1].block_hash = Block(0).block_hash

============================================================================
